---- MODULE Spec2Model ----
(***************************************************************************)
(* Model of slicknode-apollo-link (src/src/SlicknodeLink.ts): the token    *)
(* accessors over a key/value store, getAuthHeaders with its pending       *)
(* loadHeadersPromise, and request() running on a JavaScript event loop    *)
(* (synchronous handlers, a FIFO microtask queue for promise reactions,    *)
(* timers that fire in a later macrotask).                                 *)
(*                                                                         *)
(* JavaScript values are tagged records; a JavaScript string is a sequence *)
(* of symbols (single characters for decimal numerals, one opaque symbol   *)
(* for a token).                                                           *)
(***************************************************************************)
EXTENDS Integers, Sequences, FiniteSets

\* ------------------------------------------------------------------ bounds
\* requests subscribed in one behaviour
MaxRequests == 2
\* events of the environment besides requests and the first answers to
\* refresh calls: clock advances, store calls of the application, results of
\* forwarded requests, results a refresh stream emits after its first
MaxEnvEvents == 1

\* ------------------------------------------------------- JavaScript values
Null == [t |-> "null"]
Undefined == [t |-> "undefined"]
NaN == [t |-> "NaN"]
Str(s) == [t |-> "string", s |-> s]
Num(n) == [t |-> "number", n |-> n]
Obj(o) == [t |-> "object", o |-> o]
Bool(b) == [t |-> "boolean", b |-> b]

TypeOf(v) == IF v.t = "NaN" THEN "number" ELSE IF v.t = "null" THEN "object" ELSE v.t

Truthy(v) ==
  CASE v.t = "string" -> v.s # <<>>
    [] v.t = "number" -> v.n # 0
    [] v.t = "object" -> TRUE
    [] v.t = "boolean" -> v.b
    [] OTHER -> FALSE

\* a || b
JsOr(a, b) == IF Truthy(a) THEN a ELSE b

\* a < b on numbers; any comparison with NaN is false
JsLess(a, b) == IF a.t = "number" /\ b.t = "number" THEN a.n < b.n ELSE FALSE

JsMul(a, b) == IF a.t = "number" /\ b.t = "number" THEN Num(a.n * b.n) ELSE NaN

JsAdd(a, b) == IF a.t = "number" /\ b.t = "number" THEN Num(a.n + b.n) ELSE NaN

Digit(d) == <<"0", "1", "2", "3", "4", "5", "6", "7", "8", "9">>[d + 1]

RECURSIVE Digits(_)
Digits(n) == IF n < 10 THEN <<Digit(n)>> ELSE Append(Digits(n \div 10), Digit(n % 10))

\* String(v) for the values the link passes to it: an integer, NaN or null
JsString(v) ==
  CASE v.t = "number" -> IF v.n < 0 THEN <<"-">> \o Digits(0 - v.n) ELSE Digits(v.n)
    [] v.t = "NaN" -> <<"N", "a", "N">>
    [] v.t = "null" -> <<"n", "u", "l", "l">>
    [] OTHER -> v.s

IsDigit(c) == c \in {"0", "1", "2", "3", "4", "5", "6", "7", "8", "9"}

DigitValue(c) == CHOOSE d \in 0..9 : Digit(d) = c

RECURSIVE DigitPrefixValue(_, _)
DigitPrefixValue(s, acc) ==
  IF s = <<>> \/ ~IsDigit(Head(s)) THEN acc
  ELSE DigitPrefixValue(Tail(s), acc * 10 + DigitValue(Head(s)))

\* parseInt(s, 10): optional sign, then the longest prefix of decimal digits;
\* NaN when there is no digit
ParseInt(s) ==
  LET neg == s # <<>> /\ Head(s) = "-"
      body == IF s # <<>> /\ Head(s) \in {"-", "+"} THEN Tail(s) ELSE s
  IN IF body = <<>> \/ ~IsDigit(Head(body)) THEN NaN
     ELSE IF neg THEN Num(0 - DigitPrefixValue(body, 0)) ELSE Num(DigitPrefixValue(body, 0))

\* --------------------------------------------------------------- constants
REFRESH_TOKEN_KEY == <<":auth:refreshToken">>
REFRESH_TOKEN_EXPIRES_KEY == <<":auth:refreshTokenExpires">>
ACCESS_TOKEN_KEY == <<":auth:accessToken">>
ACCESS_TOKEN_EXPIRES_KEY == <<":auth:accessTokenExpires">>
DEFAULT_NAMESPACE == <<"slicknode">>
MsPerSecond == 1000

LinkIds == {1, 2}
Namespaces == {DEFAULT_NAMESPACE, <<"other">>}
Suffixes == {REFRESH_TOKEN_KEY, REFRESH_TOKEN_EXPIRES_KEY, ACCESS_TOKEN_KEY, ACCESS_TOKEN_EXPIRES_KEY}
Keys == {ns \o sfx : ns \in Namespaces, sfx \in Suffixes}

\* ------------------------------------------------------------ MemoryStorage
\* A store is a function from Keys to the stored string, Null when the key
\* is absent.
EmptyStorage == [k \in Keys |-> Null]
getItem(st, k) == st[k]
setItem(st, k, v) == [st EXCEPT ![k] = Str(v)]
removeItem(st, k) == [st EXCEPT ![k] = Null]

\* --------------------------------------------------- token state accessors
\* Every accessor takes the store st, the link's namespace ns and, where the
\* code reads Date.now(), the current time t.
getRefreshTokenExpires(st, ns) ==
  LET expires == getItem(st, ns \o REFRESH_TOKEN_EXPIRES_KEY)
  IN IF Truthy(expires) THEN ParseInt(expires.s) ELSE Null

getAccessTokenExpires(st, ns) ==
  LET expires == JsOr(getItem(st, ns \o ACCESS_TOKEN_EXPIRES_KEY), Null)
  IN IF Truthy(expires) THEN ParseInt(expires.s) ELSE Null

getRefreshToken(st, ns, t) ==
  IF JsLess(JsOr(getRefreshTokenExpires(st, ns), Num(0)), Num(t)) THEN Null
  ELSE getItem(st, ns \o REFRESH_TOKEN_KEY)

getAccessToken(st, ns, t) ==
  IF JsLess(JsOr(getAccessTokenExpires(st, ns), Num(0)), Num(t)) THEN Null
  ELSE JsOr(getItem(st, ns \o ACCESS_TOKEN_KEY), Null)

hasAccessToken(st, ns, t) == Truthy(getAccessToken(st, ns, t))

hasRefreshToken(st, ns, t) == Truthy(getRefreshToken(st, ns, t))

\* the access token written under the default namespace, whatever the link's
setAccessTokenDefaultNamespace(st, ns, token) == setItem(st, DEFAULT_NAMESPACE \o ACCESS_TOKEN_KEY, token.s)

setAccessToken(st, ns, token) == setItem(st, ns \o ACCESS_TOKEN_KEY, token.s)

setRefreshToken(st, ns, token) == setItem(st, ns \o REFRESH_TOKEN_KEY, token.s)

\* the expiry always stored as String(timestamp)
setAccessTokenExpiresAlways(st, ns, timestamp) ==
  setItem(st, ns \o ACCESS_TOKEN_EXPIRES_KEY, JsString(timestamp))

setAccessTokenExpires(st, ns, timestamp) ==
  IF Truthy(timestamp) THEN setItem(st, ns \o ACCESS_TOKEN_EXPIRES_KEY, JsString(timestamp))
  ELSE removeItem(st, ns \o ACCESS_TOKEN_EXPIRES_KEY)

\* the expiry of the refresh token removed when the timestamp is null, as
\* setAccessTokenExpires does
setRefreshTokenExpiresOrRemove(st, ns, timestamp) ==
  IF Truthy(timestamp) THEN setItem(st, ns \o REFRESH_TOKEN_EXPIRES_KEY, JsString(timestamp))
  ELSE removeItem(st, ns \o REFRESH_TOKEN_EXPIRES_KEY)

setRefreshTokenExpires(st, ns, timestamp) ==
  setItem(st, ns \o REFRESH_TOKEN_EXPIRES_KEY, JsString(timestamp))

\* expiries computed from the lifetimes as if they were milliseconds
setAuthTokenSetNoScale(st, ns, token, t) ==
  LET s1 == setAccessToken(st, ns, token.accessToken)
      s2 == setAccessTokenExpires(s1, ns, JsAdd(token.accessTokenLifetime, Num(t)))
      s3 == setRefreshToken(s2, ns, token.refreshToken)
  IN setRefreshTokenExpires(s3, ns, JsAdd(token.refreshTokenLifetime, Num(t)))

setAuthTokenSet(st, ns, token, t) ==
  LET s1 == setAccessToken(st, ns, token.accessToken)
      s2 == setAccessTokenExpires(s1, ns, JsAdd(JsMul(token.accessTokenLifetime, Num(MsPerSecond)), Num(t)))
      s3 == setRefreshToken(s2, ns, token.refreshToken)
  IN setRefreshTokenExpires(s3, ns, JsAdd(JsMul(token.refreshTokenLifetime, Num(MsPerSecond)), Num(t)))

\* logout that removes the access token only
logoutKeepRefresh(st, ns) ==
  LET s1 == removeItem(st, ns \o ACCESS_TOKEN_KEY)
  IN removeItem(s1, ns \o ACCESS_TOKEN_EXPIRES_KEY)

logout(st, ns) ==
  LET s1 == removeItem(st, ns \o REFRESH_TOKEN_KEY)
      s2 == removeItem(s1, ns \o REFRESH_TOKEN_EXPIRES_KEY)
      s3 == removeItem(s2, ns \o ACCESS_TOKEN_KEY)
  IN removeItem(s3, ns \o ACCESS_TOKEN_EXPIRES_KEY)

\* --------------------------------------------------------- header objects
\* A header object is a function from header names to JavaScript strings;
\* {} is the function with the empty domain.
EmptyHeaders == <<>>

\* {...a, ...b}
Spread(a, b) == [h \in DOMAIN a \cup DOMAIN b |-> IF h \in DOMAIN b THEN b[h] ELSE a[h]]

\* the headers of the contexts the application gives: none, an empty
\* object, a header of its own, and an Authorization header of its own
AcceptHeader == [Accept |-> Str(<<"json">>)]

OwnAuthorization == [Accept |-> Str(<<"json">>), Authorization |-> Str(<<"Basic own">>)]

ContextHeaders == {Undefined, Obj(EmptyHeaders), Obj(AcceptHeader), Obj(OwnAuthorization)}

\* the header without the Bearer scheme
BearerRaw(token) == [h \in {"Authorization"} |-> Str(JsString(token))]

\* {Authorization: `Bearer ${token}`}
Bearer(token) == [h \in {"Authorization"} |-> Str(<<"Bearer ">> \o JsString(token))]

\* validation that accepts a well-formed token set without storing it
validateOnly(st, ns, tokenSet, t) ==
  [st |-> st,
   ok |-> /\ Truthy(tokenSet)
          /\ TypeOf(tokenSet) = "object"
          /\ TypeOf(tokenSet.o.accessToken) = "string"
          /\ TypeOf(tokenSet.o.accessTokenLifetime) = "number"
          /\ TypeOf(tokenSet.o.refreshToken) = "string"
          /\ TypeOf(tokenSet.o.refreshTokenLifetime) = "number"]

\* validation that does not look at the types of the lifetimes
validateLoose(st, ns, tokenSet, t) ==
  IF /\ Truthy(tokenSet)
     /\ TypeOf(tokenSet) = "object"
     /\ TypeOf(tokenSet.o.accessToken) = "string"
     /\ TypeOf(tokenSet.o.refreshToken) = "string"
  THEN [st |-> setAuthTokenSet(st, ns, tokenSet.o, t), ok |-> TRUE]
  ELSE [st |-> st, ok |-> FALSE]

\* ------------------------------------------------- validateAndSetAuthTokenSet
\* tokenSet is Null, Undefined or Obj(record of four members, Undefined when
\* a member is missing).  The result is the store and the returned boolean.
validateAndSetAuthTokenSet(st, ns, tokenSet, t) ==
  IF /\ Truthy(tokenSet)
     /\ TypeOf(tokenSet) = "object"
     /\ TypeOf(tokenSet.o.accessToken) = "string"
     /\ TypeOf(tokenSet.o.accessTokenLifetime) = "number"
     /\ TypeOf(tokenSet.o.refreshToken) = "string"
     /\ TypeOf(tokenSet.o.refreshTokenLifetime) = "number"
  THEN [st |-> setAuthTokenSet(st, ns, tokenSet.o, t), ok |-> TRUE]
  ELSE [st |-> st, ok |-> FALSE]

\* ------------------------------------------------------------ model inputs
TokenSet(a, al, r, rl) ==
  Obj([accessToken |-> a, accessTokenLifetime |-> al, refreshToken |-> r, refreshTokenLifetime |-> rl])

\* token sets the application stores with setAuthTokenSet
ExpiredAccessSet == TokenSet(Str(<<"a0">>), Num(-1), Str(<<"r0">>), Num(1))
ValidSet == TokenSet(Str(<<"a0">>), Num(1), Str(<<"r0">>), Num(1))
UserTokenSets == {ExpiredAccessSet, ValidSet}
\* the token set of the accessor tests
TestSet == TokenSet(Str(<<"accessToken1">>), Num(20), Str(<<"refresh1">>), Num(100))
AccessorTokenSets == UserTokenSets \cup {TestSet}

\* payloads of the refresh mutation
GoodRefresh == TokenSet(Str(<<"a1">>), Num(1), Str(<<"r1">>), Num(1))
StaleRefresh == TokenSet(Str(<<"a2">>), Num(-1), Str(<<"r2">>), Num(1))
BadRefresh == TokenSet(Str(<<"a3">>), Str(<<"2", "0">>), Str(<<"r3">>), Num(1))
\* a token set whose access token expires the moment it is issued
ZeroRefresh == TokenSet(Str(<<"a7">>), Num(0), Str(<<"r7">>), Num(1))
RefreshData(x) == Obj([refreshAuthToken |-> x])
RefreshResults ==
  { [data |-> RefreshData(Undefined)],
    [data |-> RefreshData(BadRefresh)],
    [data |-> RefreshData(GoodRefresh)],
    [data |-> RefreshData(StaleRefresh)] }

StaticToken == Str(<<"abc123">>)
\* clock advances: just past the lifetime of a one-second token
TickSteps == {MsPerSecond + 1}

\* -------------------------------------------------------- GraphQL documents
\* A document is a sequence of definitions; an operation definition has a
\* kind of operation, a name (Undefined when anonymous) and a selection set;
\* a selection is a field (name, alias or Undefined, directive names, nested
\* selections) or a fragment spread.
Field(name, alias, directives, selections) ==
  [kind |-> "Field", name |-> Str(name), alias |-> alias, directives |-> directives,
   selections |-> selections]

OperationDefinition(operation, name, selections) ==
  [kind |-> "OperationDefinition", operation |-> operation, name |-> name, selections |-> selections]

\* the Operation handed to link.request
Operation(query, operationName) ==
  [query |-> query, operationName |-> operationName, variables |-> [token |-> Undefined]]

\* definitions.find(...): the first operation definition that is anonymous
\* or named operationName; Undefined when there is none
currentOperation(operation) ==
  LET definitions == operation.query
      found == {i \in DOMAIN definitions :
                  /\ definitions[i].kind = "OperationDefinition"
                  /\ \/ Truthy(definitions[i].name) /\ definitions[i].name = operation.operationName
                     \/ ~Truthy(definitions[i].name)}
  IN IF found = {} THEN Undefined
     ELSE definitions[CHOOSE i \in found : \A j \in found : i <= j]

hasDirective(field, name) == \E d \in DOMAIN field.directives : field.directives[d] = name

\* listeners that read the result under the field's name, whatever its alias
RECURSIVE fieldListenersByName(_)
fieldListenersByName(fields) ==
  IF fields = <<>> THEN <<>>
  ELSE LET field == Head(fields)
           rest == fieldListenersByName(Tail(fields))
       IN IF field.name = Str(<<"logoutUser">>) THEN <<[type |-> "logout"]>> \o rest
          ELSE IF hasDirective(field, "authenticate")
          THEN <<[type |-> "authenticate", fieldName |-> field.name.s]>> \o rest
          ELSE rest

\* fields.forEach(...): the listener a top-level field registers, if any
RECURSIVE fieldListeners(_)
fieldListeners(fields) ==
  IF fields = <<>> THEN <<>>
  ELSE LET field == Head(fields)
           rest == fieldListeners(Tail(fields))
       IN IF field.name = Str(<<"logoutUser">>) THEN <<[type |-> "logout"]>> \o rest
          ELSE IF hasDirective(field, "authenticate")
          THEN <<[type |-> "authenticate",
                  fieldName |-> IF Truthy(field.alias) THEN field.alias.s ELSE field.name.s]>> \o rest
          ELSE rest

IsField(selectionNode) == selectionNode.kind = "Field"

\* listeners registered for queries as well as for mutations
resultListenersAnyOperation(operation) ==
  LET cur == currentOperation(operation)
  IN IF cur # Undefined THEN fieldListeners(SelectSeq(cur.selections, IsField)) ELSE <<>>

\* the result listeners the then-callback of request registers
resultListeners(operation) ==
  LET cur == currentOperation(operation)
  IN IF cur # Undefined /\ cur.operation = "mutation"
     THEN fieldListeners(SelectSeq(cur.selections, IsField))
     ELSE <<>>

IsNotAuthenticate(directive) == directive # "authenticate"

\* removeDirectivesFromDocument with {test: name = 'authenticate', remove:
\* false} on a selection set: the directive is dropped from every field, the
\* field stays
RECURSIVE removeDirectives(_)
removeDirectives(selections) ==
  IF selections = <<>> THEN <<>>
  ELSE LET s == Head(selections)
           rest == removeDirectives(Tail(selections))
       IN IF s.kind = "Field"
          THEN <<[s EXCEPT !.directives = SelectSeq(s.directives, IsNotAuthenticate),
                           !.selections = removeDirectives(s.selections)]>> \o rest
          ELSE <<s>> \o rest

\* the document with the directive removed from top-level fields only
removeDirectivesTopLevel(query) ==
  [i \in DOMAIN query |->
     IF query[i].kind = "OperationDefinition"
     THEN [query[i] EXCEPT !.selections =
             [j \in DOMAIN query[i].selections |->
                IF query[i].selections[j].kind = "Field"
                THEN [query[i].selections[j] EXCEPT !.directives = SelectSeq(@, IsNotAuthenticate)]
                ELSE query[i].selections[j]]]
     ELSE query[i]]

removeDirectivesFromDocument(query) ==
  [i \in DOMAIN query |->
     IF query[i].kind = "OperationDefinition"
     THEN [query[i] EXCEPT !.selections = removeDirectives(@)]
     ELSE query[i]]

\* the documents of the requests
Leaf(name) == Field(name, Undefined, <<>>, <<>>)

\* {test}
TestQuery == Operation(<<OperationDefinition("query", Undefined, <<Leaf(<<"test">>)>>)>>, Undefined)

\* mutation { loginMutation @authenticate { accessToken } }
LoginUnnamed ==
  Operation(<<OperationDefinition("mutation", Undefined,
                <<Field(<<"loginMutation">>, Undefined, <<"authenticate">>, <<Leaf(<<"accessToken">>)>>)>>)>>,
            Undefined)

\* query Other { test }
\* mutation LoginMutation {
\*   otherMutation @include { nested @authenticate }
\*   alias: loginMutation @authenticate @include { accessToken }
\* }, operationName LoginMutation
LoginAlias ==
  Operation(<<OperationDefinition("query", Str(<<"Other">>), <<Leaf(<<"test">>)>>),
              OperationDefinition("mutation", Str(<<"LoginMutation">>),
                <<Field(<<"otherMutation">>, Undefined, <<"include">>,
                        <<Field(<<"nested">>, Undefined, <<"authenticate">>, <<>>)>>),
                  Field(<<"loginMutation">>, Str(<<"alias">>), <<"authenticate", "include">>,
                        <<Leaf(<<"accessToken">>)>>)>>)>>,
            Str(<<"LoginMutation">>))

\* query LoginMutation { loginMutation @authenticate { accessToken } }
AuthQuery ==
  Operation(<<OperationDefinition("query", Str(<<"LoginMutation">>),
                <<Field(<<"loginMutation">>, Undefined, <<"authenticate">>, <<Leaf(<<"accessToken">>)>>)>>)>>,
            Str(<<"LoginMutation">>))

\* mutation LoginMutation { loginMutation { accessToken } }
LoginNoDirective ==
  Operation(<<OperationDefinition("mutation", Str(<<"LoginMutation">>),
                <<Field(<<"loginMutation">>, Undefined, <<>>, <<Leaf(<<"accessToken">>)>>)>>)>>,
            Str(<<"LoginMutation">>))

\* mutation LogoutMutation { logoutUser { success } }
LogoutMutation ==
  Operation(<<OperationDefinition("mutation", Str(<<"LogoutMutation">>),
                <<Field(<<"logoutUser">>, Undefined, <<>>, <<Leaf(<<"success">>)>>)>>)>>,
            Str(<<"LogoutMutation">>))

\* mutation { loginMutation @authenticate { accessToken } logoutUser { success } }
LoginThenLogout ==
  Operation(<<OperationDefinition("mutation", Undefined,
                <<Field(<<"loginMutation">>, Undefined, <<"authenticate">>, <<Leaf(<<"accessToken">>)>>),
                  Field(<<"logoutUser">>, Undefined, <<>>, <<Leaf(<<"success">>)>>)>>)>>,
            Undefined)

\* mutation { logoutUser { success } loginMutation @authenticate { accessToken } }
LogoutThenLogin ==
  Operation(<<OperationDefinition("mutation", Undefined,
                <<Field(<<"logoutUser">>, Undefined, <<>>, <<Leaf(<<"success">>)>>),
                  Field(<<"loginMutation">>, Undefined, <<"authenticate">>, <<Leaf(<<"accessToken">>)>>)>>)>>,
            Undefined)

Operations == {TestQuery, LoginUnnamed, LoginAlias, AuthQuery, LoginNoDirective, LogoutMutation}

\* response data: an object is a function from its own property names to
\* values
Data(name, value) == Obj([k \in {name} |-> value])
Data2(name, value, other, otherValue) ==
  Obj([k \in {name, other} |-> IF k = name THEN value ELSE otherValue])

LoginSet == TokenSet(Str(<<"a4">>), Num(1), Str(<<"r4">>), Num(1))
EmptyObject == TokenSet(Undefined, Undefined, Undefined, Undefined)
WrongTypeSet == TokenSet(Str(<<"a5">>), Str(<<"2", "0">>), Str(<<"r5">>), Num(1))
MissingMemberSet == TokenSet(Str(<<"a6">>), Num(1), Undefined, Num(1))
InvalidSets == {Null, EmptyObject, WrongTypeSet, MissingMemberSet}

\* the results the downstream stream of a request may emit
Responses(operation) ==
  CASE operation = LoginUnnamed ->
         {[data |-> Data(<<"loginMutation">>, x)] : x \in {LoginSet} \cup InvalidSets}
           \cup {[data |-> Null]}
    [] operation = LoginAlias ->
         {[data |-> Data2(<<"alias">>, LoginSet, <<"otherMutation">>, Bool(TRUE))],
          [data |-> Data2(<<"loginMutation">>, LoginSet, <<"otherMutation">>, Bool(TRUE))]}
    [] operation = LogoutMutation ->
         {[data |-> Data(<<"logoutUser">>, Obj([success |-> Bool(TRUE)]))], [data |-> Null]}
    [] operation \in {LoginThenLogout, LogoutThenLogin} ->
         {[data |-> Data2(<<"loginMutation">>, LoginSet, <<"logoutUser">>, Obj([success |-> Bool(TRUE)]))],
          [data |-> Null]}
    [] operation \in {AuthQuery, LoginNoDirective} ->
         {[data |-> Data(<<"loginMutation">>, LoginSet)]}
    [] OTHER -> {[data |-> Data(<<"test">>, Bool(TRUE))]}

\* -------------------------------------------------------------------- state
VARIABLES
  now,                \* Date.now(), in milliseconds
  requestBudget,      \* number of requests the behaviour may subscribe
  envBudget,          \* number of environment events the behaviour may take
  envEvents,          \* number of environment events so far
  documents,          \* the operations the application sends in this behaviour
  payloads,           \* the results the refresh mutation returns in this behaviour
  failing,            \* the methods of the credential store that throw in this behaviour
  unforwarded,        \* number of request calls made without a forward handler
  thrown,             \* number of request calls that threw
  links,              \* the constructed link instances, a subset of LinkIds
  options,            \* options[l]: the constructor options of link l
  storage,            \* the credential store shared by the links
  loadHeadersPromise, \* loadHeadersPromise[l]: 0 (null) or a promise id
  promises,           \* the promises created by getAuthHeaders
  requests,           \* the subscribed requests, in order of subscription
  calls,              \* the calls received by the forward handler, in order
  refreshes,          \* the streams returned by forward for the refresh calls
  mq,                 \* microtask queue: requests whose .then reaction is queued
  timers,             \* setTimeout callbacks not yet run
  failed              \* failed[l]: a refresh failed and nothing was stored since

vars == <<now, requestBudget, envBudget, envEvents, documents, payloads, failing, unforwarded, thrown, links, options, storage, loadHeadersPromise, promises,
          requests, calls, refreshes, mq, timers, failed>>

\* this.namespace = options.namespace || DEFAULT_NAMESPACE
namespace(l) == JsOr(options[l].namespace, Str(DEFAULT_NAMESPACE)).s

\* The part of the state a callback of the link can change.
Link == [storage |-> storage, lhp |-> loadHeadersPromise, promises |-> promises,
         requests |-> requests, mq |-> mq, failed |-> failed, thrown |-> thrown,
         failing |-> failing]

RECURSIVE Ascending(_)
Ascending(S) ==
  IF S = {} THEN <<>>
  ELSE LET m == CHOOSE x \in S : \A y \in S : x <= y IN <<m>> \o Ascending(S \ {m})

\* the requests rs of reqs with their reaction queued, a catch reaction
RECURSIVE queued(_, _)
queued(reqs, rs) ==
  IF rs = <<>> THEN reqs
  ELSE queued([reqs EXCEPT ![Head(rs)].state = "queued"], Tail(rs))

\* the same with a then reaction, which receives the value of the promise
RECURSIVE fulfilled(_, _, _)
fulfilled(reqs, rs, value) ==
  IF rs = <<>> THEN reqs
  ELSE fulfilled([reqs EXCEPT ![Head(rs)].state = "queued", ![Head(rs)].authHeaders = value],
                 Tail(rs), value)

\* resolve(value) of promise p: the first call settles the promise and queues
\* the reactions of the requests waiting on it, in the order they subscribed;
\* later calls do nothing.  why records what settled the promise.
resolve(S, p, value, why) ==
  IF S.promises[p].state # "pending" THEN S
  ELSE LET waiting == {r \in DOMAIN S.requests :
                         S.requests[r].state = "awaiting" /\ S.requests[r].promise = p}
       IN [S EXCEPT !.promises[p] = [@ EXCEPT !.state = "resolved", !.value = value, !.why = why],
                    !.requests = fulfilled(@, Ascending(waiting), value),
                    !.mq = @ \o Ascending(waiting)]

\* reject(error) of promise p: as resolve, the reactions being the catch
\* handlers of the waiting requests.
reject(S, p, why) ==
  IF S.promises[p].state # "pending" THEN S
  ELSE LET waiting == {r \in DOMAIN S.requests :
                         S.requests[r].state = "awaiting" /\ S.requests[r].promise = p}
       IN [S EXCEPT !.promises[p] = [@ EXCEPT !.state = "rejected", !.why = why],
                    !.requests = queued(@, Ascending(waiting)),
                    !.mq = @ \o Ascending(waiting)]

\* The next handler of the refresh subscription of link l for promise p.
\* A store method that throws ends the handler where it is called, before
\* resolve, except in logout, an async function, whose exception becomes a
\* rejected promise nobody looks at.
refreshNext(S, l, p, result, t) ==
  LET ns == namespace(l)
      usable == Truthy(result.data) /\ Truthy(result.data.o.refreshAuthToken)
      v == IF usable
           THEN validateAndSetAuthTokenSet(S.storage, ns, result.data.o.refreshAuthToken, t)
           ELSE [st |-> S.storage, ok |-> FALSE]
      setThrows == v.ok /\ "setItem" \in S.failing
      removeThrows == ~v.ok /\ "removeItem" \in S.failing
      getThrows == "getItem" \in S.failing
      st == IF v.ok THEN v.st ELSE IF removeThrows THEN S.storage ELSE logout(v.st, ns)
      S0 == [S EXCEPT !.lhp[l] = 0]
      S1 == [S0 EXCEPT !.storage = st,
                       !.failed = IF v.ok THEN [k \in LinkIds |-> FALSE] ELSE [@ EXCEPT ![l] = TRUE],
                       !.promises[p].storeFailed = @ \/ removeThrows]
  IN IF setThrows THEN [S0 EXCEPT !.promises[p].storeFailed = TRUE]
     ELSE IF getThrows THEN [S1 EXCEPT !.promises[p].storeFailed = TRUE]
     ELSE resolve(S1, p, IF hasAccessToken(st, ns, t) THEN Bearer(getAccessToken(st, ns, t))
                         ELSE EmptyHeaders,
                  IF v.ok THEN [by |-> "next", ok |-> TRUE, tokenSet |-> result.data.o.refreshAuthToken.o]
                  ELSE [by |-> "next", ok |-> FALSE])

\* error handlers that keep the credentials, or reject the header promise
refreshErrorNoLogout(S, l, p) ==
  resolve([S EXCEPT !.lhp[l] = 0, !.failed[l] = TRUE], p, EmptyHeaders, [by |-> "error"])

refreshErrorReject(S, l, p) ==
  reject([S EXCEPT !.storage = logout(S.storage, namespace(l)), !.lhp[l] = 0, !.failed[l] = TRUE],
         p, [by |-> "error"])

\* The error handler of the refresh subscription of link l for promise p.
refreshError(S, l, p) ==
  LET removeThrows == "removeItem" \in S.failing
      S1 == [S EXCEPT !.storage = IF removeThrows THEN @ ELSE logout(@, namespace(l)),
                      !.lhp[l] = 0,
                      !.failed[l] = TRUE,
                      !.promises[p].storeFailed = @ \/ removeThrows]
  IN resolve(S1, p, EmptyHeaders, [by |-> "error"])

\* What the stream returned by forward does while it is being subscribed:
\* nothing yet, or it delivers a result or an error to the subscriber at once.
SyncEvents == {[type |-> "none"], [type |-> "error"]} \cup
              {[type |-> "next", result |-> x] : x \in payloads}

deliver(S, l, p, ev, t) ==
  CASE ev.type = "next" -> refreshNext(S, l, p, ev.result, t)
    [] ev.type = "error" -> refreshError(S, l, p)
    [] OTHER -> S

\* promise.then(...) of request r on promise p
then(S, r, p) ==
  IF S.promises[p].state = "pending"
  THEN [S EXCEPT !.requests[r].state = "awaiting", !.requests[r].promise = p]
  ELSE [S EXCEPT !.requests[r].state = "queued", !.requests[r].promise = p,
                 !.requests[r].authHeaders = S.promises[p].value,
                 !.mq = Append(@, r)]

Commit(S) ==
  /\ storage' = S.storage
  /\ loadHeadersPromise' = S.lhp
  /\ promises' = S.promises
  /\ requests' = S.requests
  /\ mq' = S.mq
  /\ failed' = S.failed
  /\ thrown' = S.thrown

\* ------------------------------------------------------------------ actions
\* createOperation({}, ...): the starting context of the refresh operation
EmptyContext == <<>>

REFRESH_TOKEN_MUTATION == "mutation refreshToken"

\* a refresh call is in flight: forwarded and not yet answered by a first
\* result or an error
InFlight(i) == refreshes[i].emitted = 0 /\ ~refreshes[i].closed

NewRequest(l, operation) ==
  [link |-> l, state |-> "new", promise |-> 0, authHeaders |-> EmptyHeaders,
   headers |-> Undefined,     \* the headers of the context the application gave
   operation |-> operation,   \* the operation as the application passed it
   listeners |-> <<>>,        \* resultListeners of the then-callback
   observed |-> <<>>,         \* what the application's observer received
   subscriptions |-> 0,       \* subscriptions made to the forwarded stream
   emitted |-> <<>>,          \* the results the forwarded stream emitted
   done |-> "none",           \* how the forwarded stream ended, if it did
   signal |-> <<>>,           \* complete and error signals the observer received
   storeFailed |-> FALSE,     \* the store threw in the synchronous part of getAuthHeaders
   pre |-> [accessToken |-> getAccessToken(storage, namespace(l), now),
            refreshToken |-> getRefreshToken(storage, namespace(l), now),
            handle |-> loadHeadersPromise[l],
            failed |-> failed[l],
            inFlight |-> {i \in DOMAIN refreshes : refreshes[i].link = l /\ InFlight(i)}]]

\* the stored token taking precedence over the static one
resolveAccessTokenStoredFirst(l) == JsOr(getAccessToken(storage, namespace(l), now), options[l].accessToken)

\* this.options.accessToken || this.getAccessToken()
resolveAccessToken(l) == JsOr(options[l].accessToken, getAccessToken(storage, namespace(l), now))

\* a refresh operation whose context carries an Authorization header
refreshOperationWithHeaders(refreshToken) ==
  [query |-> REFRESH_TOKEN_MUTATION, variables |-> [token |-> refreshToken],
   context |-> [k \in {"headers"} |-> Bearer(refreshToken)]]

\* createOperation({}, {query: REFRESH_TOKEN_MUTATION, variables: {token: refreshToken}})
refreshOperation(refreshToken) ==
  [query |-> REFRESH_TOKEN_MUTATION, variables |-> [token |-> refreshToken], context |-> EmptyContext]

\* a getAuthHeaders that reads the store before it looks at the handle
JoinPendingStoreFirst(l, r, S) ==
  LET accessToken == resolveAccessToken(l)
  IN /\ loadHeadersPromise[l] # 0
     /\ IF Truthy(accessToken)
        THEN Commit([S EXCEPT !.requests[r].state = "queued",
                              !.requests[r].authHeaders = Bearer(accessToken),
                              !.mq = Append(@, r)])
        ELSE Commit(then(S, r, loadHeadersPromise[l]))
     /\ UNCHANGED <<calls, refreshes, timers>>

\* a handle shared by the link instances: a request joins whichever is held
JoinPendingAnyLink(l, r, S) ==
  /\ \E l2 \in links :
       /\ loadHeadersPromise[l2] # 0
       /\ Commit(then(S, r, loadHeadersPromise[l2]))
  /\ UNCHANGED <<calls, refreshes, timers>>

\* getAuthHeaders, the handle is pending: join it
JoinPending(l, r, S) ==
  /\ loadHeadersPromise[l] # 0
  /\ Commit(then(S, r, loadHeadersPromise[l]))
  /\ UNCHANGED <<calls, refreshes, timers>>

\* getAuthHeaders, static or stored access token: Promise.resolve(headers)
UseAccessToken(l, r, S) ==
  LET accessToken == resolveAccessToken(l)
  IN /\ loadHeadersPromise[l] = 0
     /\ Truthy(options[l].accessToken) \/ "getItem" \notin failing
     /\ Truthy(accessToken)
     /\ Commit([S EXCEPT !.requests[r].state = "queued",
                         !.requests[r].authHeaders = Bearer(accessToken),
                         !.mq = Append(@, r)])
     /\ UNCHANGED <<calls, refreshes, timers>>

\* getAuthHeaders, refresh token present: forward the refresh mutation and
\* subscribe; the assignment to loadHeadersPromise follows the executor
StartRefresh(l, r, S) ==
  LET accessToken == resolveAccessToken(l)
      refreshToken == getRefreshToken(storage, namespace(l), now)
      p == Len(promises) + 1
      S1 == [S EXCEPT !.promises = Append(@, [state |-> "pending", value |-> EmptyHeaders,
                                               link |-> l, kind |-> "refresh",
                                               why |-> [by |-> "none"],
                                               storeFailed |-> FALSE])]
  IN /\ loadHeadersPromise[l] = 0
     /\ "getItem" \notin failing
     /\ ~Truthy(accessToken)
     /\ Truthy(refreshToken)
     /\ calls' = Append(calls, [kind |-> "refresh", link |-> l, request |-> r,
                                operation |-> refreshOperation(refreshToken)])
     /\ \E ev \in SyncEvents :
          LET S2 == deliver(S1, l, p, ev, now)
              S3 == [S2 EXCEPT !.lhp[l] = p]
          IN /\ Commit(then(S3, r, p))
             /\ refreshes' = Append(refreshes,
                  [link |-> l, promise |-> p,
                   emitted |-> IF ev.type = "next" THEN 1 ELSE 0,
                   closed |-> ev.type = "error"])
     /\ UNCHANGED timers

\* the no-refresh-token branch resolving at once, without a handle
StartTimerResolved(l, r, S) ==
  /\ loadHeadersPromise[l] = 0
  /\ ~Truthy(resolveAccessToken(l))
  /\ ~Truthy(getRefreshToken(storage, namespace(l), now))
  /\ Commit([S EXCEPT !.requests[r].state = "queued", !.mq = Append(@, r)])
  /\ UNCHANGED <<calls, refreshes, timers>>

\* getAuthHeaders, no refresh token: setTimeout(..., 0)
StartTimer(l, r, S) ==
  LET accessToken == resolveAccessToken(l)
      refreshToken == getRefreshToken(storage, namespace(l), now)
      p == Len(promises) + 1
      S1 == [S EXCEPT !.promises = Append(@, [state |-> "pending", value |-> EmptyHeaders,
                                               link |-> l, kind |-> "timer",
                                               why |-> [by |-> "none"],
                                               storeFailed |-> FALSE]),
                      !.lhp[l] = p]
  IN /\ loadHeadersPromise[l] = 0
     /\ "getItem" \notin failing
     /\ ~Truthy(accessToken)
     /\ ~Truthy(refreshToken)
     /\ Commit(then(S1, r, p))
     /\ timers' = timers \cup {[link |-> l, promise |-> p, due |-> FALSE]}
     /\ UNCHANGED <<calls, refreshes>>

\* getAuthHeaders, no handle and no static token, the store's getItem throws:
\* this.getAccessToken() throws out of getAuthHeaders and out of the
\* subscriber function of the Observable, which reports the exception to the
\* observer as an error
StoreThrows(l, r, S) ==
  /\ loadHeadersPromise[l] = 0
  /\ ~Truthy(options[l].accessToken)
  /\ "getItem" \in failing
  /\ Commit([S EXCEPT !.requests[r].state = "errored", !.requests[r].storeFailed = TRUE,
                      !.requests[r].signal = Append(@, "error")])
  /\ UNCHANGED <<calls, refreshes, timers>>

getAuthHeaders(l, r, S) ==
  \/ JoinPending(l, r, S)
  \/ UseAccessToken(l, r, S)
  \/ StartRefresh(l, r, S)
  \/ StartTimer(l, r, S)
  \/ StoreThrows(l, r, S)

\* The application subscribes to link.request(operation, forward).
Request(l, operation) ==
  /\ Len(requests) + unforwarded < requestBudget
  /\ getAuthHeaders(l, Len(requests) + 1,
                    [Link EXCEPT !.requests = Append(@, NewRequest(l, operation))])
  /\ UNCHANGED <<now, requestBudget, envBudget, envEvents, documents, payloads, failing, unforwarded, links, options>>

\* The application subscribes to link.request(operation, forward), the
\* context of the operation holding the given headers.
RequestWithContext(l, operation, headers) ==
  /\ Len(requests) + unforwarded < requestBudget
  /\ getAuthHeaders(l, Len(requests) + 1,
                    [Link EXCEPT !.requests =
                       Append(@, [NewRequest(l, operation) EXCEPT !.headers = headers])])
  /\ UNCHANGED <<now, requestBudget, envBudget, envEvents, documents, payloads, failing, unforwarded, links, options>>

\* a missing forward handler reported as an error event of a returned stream
errorEventMissingForward(S, l, operation) ==
  [S EXCEPT !.requests = Append(@, [NewRequest(l, operation) EXCEPT !.state = "errored"])]

\* if (!forward) { throw new Error(...) }
throwMissingForward(S, l, operation) == [S EXCEPT !.thrown = @ + 1]

\* The application calls link.request(operation) without a forward handler.
RequestWithoutForward(l, operation) ==
  /\ Len(requests) + unforwarded < requestBudget
  /\ unforwarded' = unforwarded + 1
  /\ Commit(throwMissingForward(Link, l, operation))
  /\ UNCHANGED <<now, requestBudget, envBudget, envEvents, documents, payloads, failing, links, options, calls,
                 refreshes, timers>>

\* the merge in which the headers of the application win over the link's
forwardedOperationCallerWins(req) ==
  [query |-> removeDirectivesFromDocument(req.operation.query),
   operationName |-> req.operation.operationName,
   variables |-> req.operation.variables,
   context |-> [k \in {"headers"} |->
                  Spread(req.authHeaders, JsOr(req.headers, Obj(EmptyHeaders)).o)]]

\* the operation after operation.setContext(({headers}) => ({headers:
\* {...(headers || {}), ...authHeaders}})) and operation.query =
\* removeDirectivesFromDocument(...)
forwardedOperation(req) ==
  [query |-> removeDirectivesFromDocument(req.operation.query),
   operationName |-> req.operation.operationName,
   variables |-> req.operation.variables,
   context |-> [k \in {"headers"} |->
                  Spread(JsOr(req.headers, Obj(EmptyHeaders)).o, req.authHeaders)]]

\* The .then reaction of the oldest queued request: merge the headers into
\* the context and forward the operation; its catch reaction when the promise
\* was rejected: observer.error.
RunMicrotask ==
  /\ mq # <<>>
  /\ LET r == Head(mq)
         rejected == requests[r].promise # 0 /\ promises[requests[r].promise].state = "rejected"
     IN /\ mq' = Tail(mq)
        /\ requests' = [requests EXCEPT
                          ![r].state = IF rejected THEN "errored" ELSE "forwarded",
                          ![r].signal = IF rejected THEN Append(@, "error") ELSE @,
                          ![r].subscriptions = IF rejected THEN @ ELSE @ + 1,
                          ![r].listeners = IF rejected THEN <<>>
                                           ELSE resultListeners(requests[r].operation)]
        /\ calls' = IF rejected THEN calls
                     ELSE Append(calls, [kind |-> "request", link |-> requests[r].link, request |-> r,
                                         operation |-> forwardedOperation(requests[r])])
  /\ UNCHANGED <<now, requestBudget, envBudget, envEvents, documents, payloads, failing, unforwarded, thrown, links, options, storage, loadHeadersPromise, promises,
                 refreshes, timers, failed>>

\* a logout listener that acts only on a result carrying data
listenerLogoutOnData(st, ns, lst, result, t, fl) ==
  IF lst.type = "logout"
  THEN [st |-> IF Truthy(result.data) THEN logout(st, ns) ELSE st, ok |-> FALSE, threw |-> FALSE]
  ELSE IF /\ Truthy(result.data)
          /\ lst.fieldName \in DOMAIN result.data.o
          /\ TypeOf(result.data.o[lst.fieldName]) = "object"
       THEN LET v == validateAndSetAuthTokenSet(st, ns, result.data.o[lst.fieldName], t)
            IN [st |-> v.st, ok |-> v.ok, threw |-> FALSE]
       ELSE [st |-> st, ok |-> FALSE, threw |-> FALSE]

\* One result listener of a request of link l applied to the result, fl
\* being the store methods that throw: the store afterwards, whether a token
\* set was stored and whether the listener threw (logout, an async function,
\* never does).
listener(st, ns, lst, result, t, fl) ==
  IF lst.type = "logout"
  THEN [st |-> IF "removeItem" \in fl THEN st ELSE logout(st, ns), ok |-> FALSE, threw |-> FALSE]
  ELSE IF /\ Truthy(result.data)
          /\ lst.fieldName \in DOMAIN result.data.o
          /\ TypeOf(result.data.o[lst.fieldName]) = "object"
       THEN LET v == validateAndSetAuthTokenSet(st, ns, result.data.o[lst.fieldName], t)
            IN IF v.ok /\ "setItem" \in fl THEN [st |-> st, ok |-> FALSE, threw |-> TRUE]
               ELSE [st |-> v.st, ok |-> v.ok, threw |-> FALSE]
       ELSE [st |-> st, ok |-> FALSE, threw |-> FALSE]

\* resultListeners.forEach((listener) => listener(value)), up to the first
\* listener that throws
RECURSIVE forEachListener(_, _, _, _, _, _)
forEachListener(v, ns, listeners, result, t, fl) ==
  IF listeners = <<>> \/ v.threw THEN v
  ELSE LET v1 == listener(v.st, ns, Head(listeners), result, t, fl)
       IN forEachListener([st |-> v1.st, ok |-> v.ok \/ v1.ok, threw |-> v1.threw],
                          ns, Tail(listeners), result, t, fl)

\* what the application's observer finds when it receives value
Observation(st, ns, value, t) ==
  [value |-> value,
   accessToken |-> getAccessToken(st, ns, t),
   accessTokenExpires |-> getAccessTokenExpires(st, ns),
   refreshToken |-> getRefreshToken(st, ns, t),
   refreshTokenExpires |-> getRefreshTokenExpires(st, ns),
   at |-> t]

\* a next handler that relays the value before the listeners run
requestNextRelayFirst(S, r, value, t) ==
  LET ns == namespace(S.requests[r].link)
      v == forEachListener([st |-> S.storage, ok |-> FALSE, threw |-> FALSE], ns,
                           S.requests[r].listeners, value, t, S.failing)
  IN [S EXCEPT !.storage = v.st,
               !.failed = IF v.ok THEN [k \in LinkIds |-> FALSE] ELSE @,
               !.requests[r].observed = Append(@, Observation(S.storage, ns, value, t))]

\* a next handler whose listeners run on the first result only
requestNextFirstOnly(S, r, value, t) ==
  LET ns == namespace(S.requests[r].link)
      v == forEachListener([st |-> S.storage, ok |-> FALSE, threw |-> FALSE], ns,
                           IF S.requests[r].observed = <<>> THEN S.requests[r].listeners ELSE <<>>,
                           value, t, S.failing)
  IN [S EXCEPT !.storage = v.st,
               !.failed = IF v.ok THEN [k \in LinkIds |-> FALSE] ELSE @,
               !.requests[r].observed = IF v.threw THEN @ ELSE Append(@, Observation(v.st, ns, value, t))]

\* The next handler of the subscription to the forwarded request r; a
\* listener that throws ends it before observer.next.
requestNext(S, r, value, t) ==
  LET ns == namespace(S.requests[r].link)
      v == forEachListener([st |-> S.storage, ok |-> FALSE, threw |-> FALSE], ns,
                           S.requests[r].listeners, value, t, S.failing)
  IN [S EXCEPT !.storage = v.st,
               !.failed = IF v.ok THEN [k \in LinkIds |-> FALSE] ELSE @,
               !.requests[r].observed = IF v.threw THEN @ ELSE Append(@, Observation(v.st, ns, value, t))]

\* The stream forward returned for request r emits a result.
RequestNext(r, value) ==
  /\ mq = <<>>
  /\ requests[r].state = "forwarded"
  /\ requests[r].done = "none"
  /\ envEvents < envBudget
  /\ envEvents' = envEvents + 1
  /\ Commit(requestNext([Link EXCEPT !.requests[r].emitted = Append(@, value)], r, value, now))
  /\ UNCHANGED <<now, requestBudget, envBudget, documents, payloads, failing, unforwarded, links, options, calls,
                 refreshes, timers>>

\* a complete handler that keeps the completion to itself
requestCompleteSilent(S, r) == S

\* complete(): void { observer.complete(); }
requestComplete(S, r) == [S EXCEPT !.requests[r].signal = Append(@, "complete")]

\* The stream forward returned for request r completes.
RequestComplete(r) ==
  /\ mq = <<>>
  /\ requests[r].state = "forwarded"
  /\ requests[r].done = "none"
  /\ envEvents < envBudget
  /\ envEvents' = envEvents + 1
  /\ Commit(requestComplete([Link EXCEPT !.requests[r].done = "complete"], r))
  /\ UNCHANGED <<now, requestBudget, envBudget, documents, payloads, failing, unforwarded, links, options, calls,
                 refreshes, timers>>

\* an error handler that runs the listeners of the request's logoutUser
\* fields before it passes the error on
requestErrorLogout(S, r) ==
  [S EXCEPT !.requests[r].signal = Append(@, "error"),
            !.storage = IF \E i \in DOMAIN S.requests[r].listeners : S.requests[r].listeners[i].type = "logout"
                        THEN logout(@, namespace(S.requests[r].link)) ELSE @]

\* error(errorValue: any): void { observer.error(errorValue); }
requestError(S, r) == [S EXCEPT !.requests[r].signal = Append(@, "error")]

\* The stream forward returned for request r signals an error.
RequestError(r) ==
  /\ mq = <<>>
  /\ requests[r].state = "forwarded"
  /\ requests[r].done = "none"
  /\ envEvents < envBudget
  /\ envEvents' = envEvents + 1
  /\ Commit(requestError([Link EXCEPT !.requests[r].done = "error"], r))
  /\ UNCHANGED <<now, requestBudget, envBudget, documents, payloads, failing, unforwarded, links, options, calls,
                 refreshes, timers>>

\* The refresh stream i emits a result.
RefreshNext(i, result) ==
  /\ mq = <<>>
  /\ ~refreshes[i].closed
  /\ refreshes[i].emitted = 0 \/ envEvents < envBudget
  /\ Commit(refreshNext(Link, refreshes[i].link, refreshes[i].promise, result, now))
  /\ refreshes' = [refreshes EXCEPT ![i].emitted = @ + 1]
  /\ envEvents' = IF refreshes[i].emitted = 0 THEN envEvents ELSE envEvents + 1
  /\ UNCHANGED <<now, requestBudget, envBudget, documents, payloads, failing, unforwarded, links, options, calls, timers>>

\* The refresh stream i signals an error.
RefreshError(i) ==
  /\ mq = <<>>
  /\ ~refreshes[i].closed
  /\ Commit(refreshError(Link, refreshes[i].link, refreshes[i].promise))
  /\ refreshes' = [refreshes EXCEPT ![i].closed = TRUE]
  /\ UNCHANGED <<now, requestBudget, envBudget, envEvents, documents, payloads, failing, unforwarded, links, options, calls, timers>>

\* The refresh stream i completes; the subscription has no complete handler.
RefreshComplete(i) ==
  /\ mq = <<>>
  /\ ~refreshes[i].closed
  /\ refreshes' = [refreshes EXCEPT ![i].closed = TRUE]
  /\ UNCHANGED <<now, requestBudget, envBudget, envEvents, documents, payloads, failing, unforwarded, thrown, links, options, storage, loadHeadersPromise, promises,
                 requests, calls, mq, timers, failed>>

\* The current macrotask ends with an empty microtask queue: the timers set
\* during it may fire from now on.
EndTurn ==
  /\ mq = <<>>
  /\ \E tm \in timers : ~tm.due
  /\ timers' = {[tm EXCEPT !.due = TRUE] : tm \in timers}
  /\ UNCHANGED <<now, requestBudget, envBudget, envEvents, documents, payloads, failing, unforwarded, thrown, links, options, storage, loadHeadersPromise, promises,
                 requests, calls, refreshes, mq, failed>>

\* The setTimeout callback of the no-refresh-token branch.
TimerFire(tm) ==
  /\ tm.due
  /\ mq = <<>>
  /\ timers' = timers \ {tm}
  /\ Commit(resolve([Link EXCEPT !.lhp[tm.link] = 0], tm.promise, EmptyHeaders, [by |-> "timer"]))
  /\ UNCHANGED <<now, requestBudget, envBudget, envEvents, documents, payloads, failing, unforwarded, links, options, calls, refreshes>>

\* The application calls link.setAuthTokenSet(token).
SetAuthTokenSet(l, token) ==
  /\ mq = <<>>
  /\ envEvents < envBudget
  /\ envEvents' = envEvents + 1
  /\ storage' = IF "setItem" \in failing THEN storage
                 ELSE setAuthTokenSet(storage, namespace(l), token.o, now)
  /\ failed' = IF "setItem" \in failing THEN failed ELSE [k \in LinkIds |-> FALSE]
  /\ UNCHANGED <<now, requestBudget, envBudget, documents, payloads, failing, unforwarded, thrown, links, options, loadHeadersPromise, promises, requests, calls,
                 refreshes, mq, timers>>

\* The application calls link.logout().
Logout(l) ==
  /\ mq = <<>>
  /\ envEvents < envBudget
  /\ envEvents' = envEvents + 1
  /\ storage' = IF "removeItem" \in failing THEN storage ELSE logout(storage, namespace(l))
  /\ UNCHANGED <<now, requestBudget, envBudget, documents, payloads, failing, unforwarded, thrown, links, options, loadHeadersPromise, promises, requests, calls,
                 refreshes, mq, timers, failed>>

\* The application calls link.setAccessTokenExpires(timestamp).
SetAccessTokenExpires(l, timestamp) ==
  /\ mq = <<>>
  /\ envEvents < envBudget
  /\ envEvents' = envEvents + 1
  /\ storage' = IF (IF Truthy(timestamp) THEN "setItem" ELSE "removeItem") \in failing THEN storage
                 ELSE setAccessTokenExpires(storage, namespace(l), timestamp)
  /\ UNCHANGED <<now, requestBudget, envBudget, documents, payloads, failing, unforwarded, thrown, links,
                 options, loadHeadersPromise, promises, requests, calls, refreshes, mq, timers, failed>>

\* The application calls link.setRefreshTokenExpires(timestamp).
SetRefreshTokenExpires(l, timestamp) ==
  /\ mq = <<>>
  /\ envEvents < envBudget
  /\ envEvents' = envEvents + 1
  /\ storage' = IF "setItem" \in failing THEN storage
                 ELSE setRefreshTokenExpires(storage, namespace(l), timestamp)
  /\ UNCHANGED <<now, requestBudget, envBudget, documents, payloads, failing, unforwarded, thrown, links,
                 options, loadHeadersPromise, promises, requests, calls, refreshes, mq, timers, failed>>

\* A method of the credential store begins to throw.
StoreFails(m) ==
  /\ mq = <<>>
  /\ failing = {}
  /\ envEvents < envBudget
  /\ envEvents' = envEvents + 1
  /\ failing' = {m}
  /\ UNCHANGED <<now, requestBudget, envBudget, documents, payloads, unforwarded, thrown, links, options,
                 storage, loadHeadersPromise, promises, requests, calls, refreshes, mq, timers, failed>>

\* The credential store works again.
StoreRecovers ==
  /\ mq = <<>>
  /\ failing # {}
  /\ failing' = {}
  /\ UNCHANGED <<now, requestBudget, envBudget, envEvents, documents, payloads, unforwarded, thrown, links,
                 options, storage, loadHeadersPromise, promises, requests, calls, refreshes, mq, timers,
                 failed>>

\* Date.now() advances.
Tick(d) ==
  /\ mq = <<>>
  /\ envEvents < envBudget
  /\ envEvents' = envEvents + 1
  /\ now' = now + d
  /\ UNCHANGED <<requestBudget, envBudget, documents, payloads, failing, unforwarded, thrown, links, options, storage, loadHeadersPromise, promises, requests,
                 calls, refreshes, mq, timers, failed>>

\* One link with the in-memory store, empty or holding the credentials a
\* setAuthTokenSet call left there, with or without a static access token.
InitLink ==
  /\ envEvents = 0
  /\ unforwarded = 0
  /\ thrown = 0
  /\ links = {1}
  /\ storage \in {EmptyStorage} \cup
                 {setAuthTokenSet(EmptyStorage, DEFAULT_NAMESPACE, ts.o, 0) : ts \in UserTokenSets}
  /\ loadHeadersPromise = [l \in LinkIds |-> 0]
  /\ promises = <<>>
  /\ requests = <<>>
  /\ calls = <<>>
  /\ refreshes = <<>>
  /\ mq = <<>>
  /\ timers = {}
  /\ failed = [l \in LinkIds |-> FALSE]

StaticOption == [l \in LinkIds |-> [accessToken |-> StaticToken, namespace |-> Undefined]]

NoOption == [l \in LinkIds |-> [accessToken |-> Null, namespace |-> Undefined]]

\* Requests for {test} only.
Init ==
  /\ requestBudget = MaxRequests
  /\ envBudget = MaxEnvEvents
  /\ documents = {TestQuery}
  /\ payloads = RefreshResults
  /\ failing = {}
  /\ now = 0
  /\ options \in {NoOption, StaticOption}
  /\ InitLink

\* The same link, one request more.
InitWide ==
  /\ requestBudget = MaxRequests + 1
  /\ envBudget = MaxEnvEvents
  /\ documents = {TestQuery}
  /\ payloads = RefreshResults
  /\ failing = {}
  /\ now = 0
  /\ options \in {NoOption, StaticOption}
  /\ InitLink

\* The link without static token, a moment before, at and a moment after
\* the expiry of the credentials stored at time 0.
InitAtExpiry ==
  /\ requestBudget = MaxRequests
  /\ envBudget = MaxEnvEvents
  /\ documents = {TestQuery}
  /\ payloads = RefreshResults
  /\ failing = {}
  /\ now \in {MsPerSecond - 1, MsPerSecond, MsPerSecond + 1}
  /\ options = NoOption
  /\ InitLink

\* The link without static token, the requests being queries and mutations
\* with and without the authenticate directive and logoutUser; one request
\* less, and a store that is empty or holds a valid access token.
InitMutation ==
  /\ requestBudget = MaxRequests - 1
  /\ envBudget = MaxEnvEvents
  /\ documents = Operations
  /\ payloads = RefreshResults
  /\ failing = {}
  /\ now = 0
  /\ options = NoOption
  /\ InitLink
  /\ hasRefreshToken(storage, DEFAULT_NAMESPACE, now) => hasAccessToken(storage, DEFAULT_NAMESPACE, now)

\* The same with MaxRequests requests: a login and the requests around it.
InitLogin ==
  /\ requestBudget = MaxRequests
  /\ envBudget = MaxEnvEvents
  /\ documents = Operations
  /\ payloads = RefreshResults
  /\ failing = {}
  /\ now = 0
  /\ options = NoOption
  /\ InitLink

\* The link without static token, its access token expired and its refresh
\* token valid; one request less, a logout, whose stream emits results and
\* ends.
InitRelay ==
  /\ requestBudget = MaxRequests - 1
  /\ envBudget = MaxEnvEvents + 2
  /\ documents = {LogoutMutation}
  /\ payloads = {[data |-> RefreshData(GoodRefresh)]}
  /\ failing = {}
  /\ now = 0
  /\ options = NoOption
  /\ InitLink
  /\ hasRefreshToken(storage, DEFAULT_NAMESPACE, now)
  /\ ~hasAccessToken(storage, DEFAULT_NAMESPACE, now)

\* The link without static token over a store one of whose methods throws
\* (a quota that is exceeded, a storage the browser denies access to).
StoreMethods == {"getItem", "setItem", "removeItem"}

InitStoreFailure ==
  /\ requestBudget = MaxRequests
  /\ envBudget = MaxEnvEvents
  /\ documents = {TestQuery}
  /\ payloads = RefreshResults
  /\ failing \in {{m} : m \in StoreMethods}
  /\ now = 0
  /\ options = NoOption
  /\ InitLink

\* The link without static token, its access token expired and its refresh
\* token valid, the refresh mutation returning token sets whose access token
\* is expired already.
InitStale ==
  /\ requestBudget = MaxRequests
  /\ envBudget = MaxEnvEvents
  /\ documents = {TestQuery}
  /\ payloads = {[data |-> RefreshData(StaleRefresh)], [data |-> RefreshData(ZeroRefresh)]}
  /\ failing = {}
  /\ now \in {1, MsPerSecond - 1}
  /\ options = NoOption
  /\ InitLink
  /\ hasRefreshToken(storage, DEFAULT_NAMESPACE, now)
  /\ ~hasAccessToken(storage, DEFAULT_NAMESPACE, now)

\* The link without static token, its access token expired and its refresh
\* token valid, the refresh mutation returning a good token set.
InitLive ==
  /\ requestBudget = MaxRequests
  /\ envBudget = MaxEnvEvents
  /\ documents = {TestQuery}
  /\ payloads = {[data |-> RefreshData(GoodRefresh)]}
  /\ failing = {}
  /\ now = 0
  /\ options = NoOption
  /\ InitLink
  /\ hasRefreshToken(storage, DEFAULT_NAMESPACE, now)
  /\ ~hasAccessToken(storage, DEFAULT_NAMESPACE, now)

\* The link used through its token accessors only, at several times of the
\* clock, starting from a store that holds credentials.
InitAccessor ==
  /\ requestBudget = 0
  /\ envBudget = MaxEnvEvents + 3
  /\ documents = {}
  /\ payloads = {}
  /\ failing = {}
  /\ now \in {1, MsPerSecond - 1, MsPerSecond}
  /\ options = NoOption
  /\ InitLink
  /\ getItem(storage, DEFAULT_NAMESPACE \o REFRESH_TOKEN_KEY) # Null

\* Two link instances without static token over one store and the default
\* namespace, the access token expired and the refresh token valid.
InitShared ==
  /\ requestBudget = MaxRequests
  /\ envBudget = MaxEnvEvents
  /\ documents = {TestQuery}
  /\ payloads = {[data |-> RefreshData(GoodRefresh)]}
  /\ failing = {}
  /\ now = 0
  /\ options = NoOption
  /\ envEvents = 0
  /\ unforwarded = 0
  /\ thrown = 0
  /\ links = LinkIds
  /\ storage = setAuthTokenSet(EmptyStorage, DEFAULT_NAMESPACE, ExpiredAccessSet.o, 0)
  /\ loadHeadersPromise = [l \in LinkIds |-> 0]
  /\ promises = <<>>
  /\ requests = <<>>
  /\ calls = <<>>
  /\ refreshes = <<>>
  /\ mq = <<>>
  /\ timers = {}
  /\ failed = [l \in LinkIds |-> FALSE]

OTHER_NAMESPACE == <<"other">>

\* Two link instances without static token over one store, the first with
\* the default namespace, the second with namespace "other"; the store holds
\* the token set of the tests under "other" and nothing or an expired access
\* token and a valid refresh token under the default namespace.  One request
\* less, a login or a logout.
InitNamespaces ==
  /\ requestBudget = MaxRequests - 1
  /\ envBudget = MaxEnvEvents
  /\ documents = {LoginUnnamed, LogoutMutation}
  /\ payloads = {[data |-> RefreshData(GoodRefresh)]}
  /\ failing = {}
  /\ now = 0
  /\ options = <<[accessToken |-> Null, namespace |-> Undefined],
                 [accessToken |-> Null, namespace |-> Str(OTHER_NAMESPACE)]>>
  /\ envEvents = 0
  /\ unforwarded = 0
  /\ thrown = 0
  /\ links = LinkIds
  /\ storage \in {setAuthTokenSet(EmptyStorage, OTHER_NAMESPACE, TestSet.o, 0),
                   setAuthTokenSet(setAuthTokenSet(EmptyStorage, OTHER_NAMESPACE, TestSet.o, 0),
                                   DEFAULT_NAMESPACE, ExpiredAccessSet.o, 0)}
  /\ loadHeadersPromise = <<0, 0>>
  /\ promises = <<>>
  /\ requests = <<>>
  /\ calls = <<>>
  /\ refreshes = <<>>
  /\ mq = <<>>
  /\ timers = {}
  /\ failed = <<FALSE, FALSE>>

\* The link without static token over a store with valid credentials; the
\* requests are mutations that select a login field and logoutUser, in either
\* order, and their streams emit several results.
InitOrder ==
  /\ requestBudget = MaxRequests
  /\ envBudget = MaxEnvEvents + 2
  /\ documents = {LoginThenLogout, LogoutThenLogin}
  /\ payloads = {[data |-> RefreshData(GoodRefresh)]}
  /\ failing = {}
  /\ now = 0
  /\ options = NoOption
  /\ InitLink
  /\ hasAccessToken(storage, DEFAULT_NAMESPACE, now)

\* The link without static token over a store with valid credentials; the
\* requests are a logoutUser mutation and a login mutation, whose streams end
\* with or without a result.
InitSignal ==
  /\ requestBudget = MaxRequests
  /\ envBudget = MaxEnvEvents + 1
  /\ documents = {LogoutMutation, LoginUnnamed}
  /\ payloads = {[data |-> RefreshData(GoodRefresh)]}
  /\ failing = {}
  /\ now = 0
  /\ options = NoOption
  /\ InitLink
  /\ hasAccessToken(storage, DEFAULT_NAMESPACE, now)

\* The link without static token over a store whose methods throw for a
\* while: from the start or from some later moment, until the store recovers.
InitTransient ==
  /\ requestBudget = MaxRequests
  /\ envBudget = MaxEnvEvents
  /\ documents = {TestQuery}
  /\ payloads = {[data |-> RefreshData(GoodRefresh)]}
  /\ failing \in {{}} \cup {{m} : m \in StoreMethods}
  /\ now = 0
  /\ options = NoOption
  /\ InitLink

\* The requests, the answers to the refresh calls, the timers, and the store
\* failing and recovering.
NextTransient ==
  \/ \E l \in links, operation \in documents : Request(l, operation)
  \/ RunMicrotask
  \/ \E i \in DOMAIN refreshes, result \in payloads : RefreshNext(i, result)
  \/ \E i \in DOMAIN refreshes : RefreshError(i)
  \/ EndTurn
  \/ \E tm \in timers : TimerFire(tm)
  \/ \E m \in StoreMethods : StoreFails(m)
  \/ StoreRecovers

\* the timestamps the application passes to setAccessTokenExpires
Timestamps == {Null, Num(0), Num(now + 1)}

NextAccessor ==
  \/ \E l \in links, token \in AccessorTokenSets : SetAuthTokenSet(l, token)
  \/ \E l \in links, timestamp \in Timestamps : SetAccessTokenExpires(l, timestamp)
  \/ \E l \in links : Logout(l)
  \/ \E d \in TickSteps : Tick(d)

\* The accessors of the refresh token: setAuthTokenSet, setRefreshTokenExpires
\* and logout at several times of the clock.
NextRefreshExpires ==
  \/ \E l \in links, token \in AccessorTokenSets : SetAuthTokenSet(l, token)
  \/ \E l \in links, timestamp \in Timestamps : SetRefreshTokenExpires(l, timestamp)
  \/ \E l \in links : Logout(l)
  \/ \E d \in TickSteps : Tick(d)

\* The link of Init, its requests made with a context of the application.
InitContext ==
  /\ requestBudget = MaxRequests
  /\ envBudget = MaxEnvEvents
  /\ documents = {TestQuery}
  /\ payloads = {[data |-> RefreshData(GoodRefresh)]}
  /\ failing = {}
  /\ now = 0
  /\ options \in {NoOption, StaticOption}
  /\ InitLink

\* The requests with a context, the answers to them and to the refresh
\* calls, and the application logging out.
NextContext ==
  \/ \E l \in links, operation \in documents, headers \in ContextHeaders :
        RequestWithContext(l, operation, headers)
  \/ RunMicrotask
  \/ \E r \in DOMAIN requests : \E value \in Responses(requests[r].operation) : RequestNext(r, value)
  \/ \E r \in DOMAIN requests : RequestComplete(r)
  \/ \E i \in DOMAIN refreshes, result \in payloads : RefreshNext(i, result)
  \/ \E i \in DOMAIN refreshes : RefreshError(i)
  \/ EndTurn
  \/ \E tm \in timers : TimerFire(tm)
  \/ \E l \in links : Logout(l)

\* The requests and the results of their streams, the clock standing still
\* and the application leaving the store alone.
NextOrder ==
  \/ \E l \in links, operation \in documents : Request(l, operation)
  \/ RunMicrotask
  \/ \E r \in DOMAIN requests : \E value \in Responses(requests[r].operation) : RequestNext(r, value)
  \/ \E r \in DOMAIN requests : RequestComplete(r)
  \/ \E r \in DOMAIN requests : RequestError(r)
  \/ EndTurn
  \/ \E tm \in timers : TimerFire(tm)

Next ==
  \/ \E l \in links, operation \in documents : Request(l, operation)
  \/ \E l \in links, operation \in documents : RequestWithoutForward(l, operation)
  \/ RunMicrotask
  \/ \E r \in DOMAIN requests : \E value \in Responses(requests[r].operation) : RequestNext(r, value)
  \/ \E r \in DOMAIN requests : RequestComplete(r)
  \/ \E r \in DOMAIN requests : RequestError(r)
  \/ \E i \in DOMAIN refreshes, result \in payloads : RefreshNext(i, result)
  \/ \E i \in DOMAIN refreshes : RefreshError(i)
  \/ \E i \in DOMAIN refreshes : RefreshComplete(i)
  \/ EndTurn
  \/ \E tm \in timers : TimerFire(tm)
  \/ \E l \in links, token \in UserTokenSets : SetAuthTokenSet(l, token)
  \/ \E l \in links : Logout(l)
  \/ \E d \in TickSteps : Tick(d)

Spec == Init /\ [][Next]_vars

SpecWide == InitWide /\ [][Next]_vars

SpecAtExpiry == InitAtExpiry /\ [][Next]_vars

SpecMutation == InitMutation /\ [][Next]_vars

SpecLogin == InitLogin /\ [][Next]_vars

SpecRelay == InitRelay /\ [][Next]_vars

\* every refresh stream has emitted a result, signalled an error or completed
RefreshesTerminated == \A i \in DOMAIN refreshes : ~InFlight(i)

\* The event loop runs the queued reactions and the timers that are due, and
\* every refresh stream terminates: none stays open and silent for ever.
Fairness ==
  /\ WF_vars(RunMicrotask)
  /\ WF_vars(EndTurn)
  /\ WF_vars(\E tm \in timers : TimerFire(tm))
  /\ []<>RefreshesTerminated

SpecLive == InitLive /\ [][Next]_vars /\ Fairness

SpecStale == InitStale /\ [][Next]_vars

SpecAccessor == InitAccessor /\ [][NextAccessor]_vars

SpecStoreFailure == InitStoreFailure /\ [][Next]_vars

SpecShared == InitShared /\ [][Next]_vars

SpecOrder == InitOrder /\ [][NextOrder]_vars

SpecContext == InitContext /\ [][NextContext]_vars

SpecTransient == InitTransient /\ [][NextTransient]_vars

SpecSignal == InitSignal /\ [][NextOrder]_vars

SpecRefreshExpires == InitAccessor /\ [][NextRefreshExpires]_vars

SpecNamespaces == InitNamespaces /\ [][Next]_vars

\* ------------------------------------------------------------------ claims
\* helpers of the claims
StaticOverride(l) == Truthy(options[l].accessToken)

RefreshCallsOf(r) == {k \in DOMAIN calls : calls[k].kind = "refresh" /\ calls[k].request = r}

RequestCallsOf(r) == {k \in DOMAIN calls : calls[k].kind = "request" /\ calls[k].request = r}

RefreshOfPromise(p) == {i \in DOMAIN refreshes : refreshes[i].promise = p}

\* request r was issued with no valid access token and a valid refresh token
NeededRefresh(r) ==
  /\ ~StaticOverride(requests[r].link)
  /\ ~Truthy(requests[r].pre.accessToken)
  /\ Truthy(requests[r].pre.refreshToken)

\* C1: coalescing.  A request issued with no valid access token and a valid
\* refresh token forwards exactly one refresh call when no refresh call is in
\* flight, and otherwise forwards none and waits for the one in flight; it
\* is forwarded only after that call was answered, with the headers of its
\* outcome.
C1_Coalescing ==
  \A r \in DOMAIN requests :
    NeededRefresh(r) =>
      /\ requests[r].pre.inFlight = {} => Cardinality(RefreshCallsOf(r)) = 1
      /\ requests[r].pre.inFlight # {} =>
           /\ RefreshCallsOf(r) = {}
           /\ \A i \in requests[r].pre.inFlight : refreshes[i].promise = requests[r].promise
      /\ requests[r].state = "forwarded" =>
           /\ \A i \in RefreshOfPromise(requests[r].promise) : ~InFlight(i)
           /\ \A k \in RequestCallsOf(r) :
                calls[k].operation.context["headers"] = promises[requests[r].promise].value

\* C2: at most one refresh call of a link is in flight.
C2_AtMostOneInFlight ==
  \A l \in links : Cardinality({i \in DOMAIN refreshes : refreshes[i].link = l /\ InFlight(i)}) <= 1

\* C3: a header resolution that has settled is no longer the pending handle
\* of its link.
C3_HandleClearedOnSettle ==
  \A l \in links :
    loadHeadersPromise[l] # 0 => promises[loadHeadersPromise[l]].state = "pending"

\* C4: every refresh call carries the refresh mutation, the variables
\* {token: <refresh token stored when the request was issued>} and an empty
\* context, and precedes the forwarding of the request that caused it; a
\* request issued with no valid access token, a valid refresh token and no
\* pending handle causes one.
C4_RefreshOperation ==
  /\ \A k \in DOMAIN calls :
       calls[k].kind = "refresh" =>
         LET r == calls[k].request
         IN /\ calls[k].operation.query = REFRESH_TOKEN_MUTATION
            /\ DOMAIN calls[k].operation.variables = {"token"}
            /\ Truthy(requests[r].pre.refreshToken)
            /\ calls[k].operation.variables.token = requests[r].pre.refreshToken
            /\ DOMAIN calls[k].operation.context = {}
            /\ \A k2 \in RequestCallsOf(r) : k < k2
  /\ \A r \in DOMAIN requests :
       NeededRefresh(r) /\ requests[r].pre.handle = 0 => RefreshCallsOf(r) # {}

C4_Witness ==
  \E r \in DOMAIN requests : RefreshCallsOf(r) # {} /\ RequestCallsOf(r) # {}

\* the promise p is settled by this step
SettledNow(p) ==
  /\ p \in DOMAIN promises => promises[p].state = "pending"
  /\ promises'[p].state # "pending"

\* what settled promise p was a refresh result that passed validation
StoredBy(why) == why.by = "next" /\ why.ok

\* what settled promise p was a failing refresh: an error or an unusable result
FailedBy(why) == why.by = "error" \/ (why.by = "next" /\ ~why.ok)

PositiveLifetimes(ts) == ts.accessTokenLifetime.n > 0 /\ ts.refreshTokenLifetime.n > 0

BearerOf(token) == [h \in {"Authorization"} |-> Str(<<"Bearer ">> \o token.s)]

\* C5: when the refresh call is answered by a well-formed token set with
\* positive lifetimes, the four stored fields are the payload's (expiries at
\* now + lifetime * 1000) and the header promise resolves to Bearer <new access
\* token>, with which each waiting request is forwarded.
C5_Step ==
  /\ \A p \in DOMAIN promises' :
       (SettledNow(p) /\ StoredBy(promises'[p].why) /\ PositiveLifetimes(promises'[p].why.tokenSet)) =>
         LET ts == promises'[p].why.tokenSet
             ns == namespace(promises'[p].link)
         IN /\ getAccessToken(storage', ns, now') = ts.accessToken
            /\ getRefreshToken(storage', ns, now') = ts.refreshToken
            /\ getAccessTokenExpires(storage', ns) = Num(now' + ts.accessTokenLifetime.n * 1000)
            /\ getRefreshTokenExpires(storage', ns) = Num(now' + ts.refreshTokenLifetime.n * 1000)
            /\ promises'[p].state = "resolved"
            /\ promises'[p].value = BearerOf(ts.accessToken)
  /\ \A k \in DOMAIN calls' \ DOMAIN calls :
       LET p == requests[calls'[k].request].promise
       IN (calls'[k].kind = "request" /\ p # 0 /\ StoredBy(promises[p].why)
             /\ PositiveLifetimes(promises[p].why.tokenSet)) =>
            calls'[k].operation.context["headers"] = BearerOf(promises[p].why.tokenSet.accessToken)

C5_RefreshStored == [][C5_Step]_vars

C5_Witness ==
  \E r \in DOMAIN requests :
    /\ requests[r].state = "forwarded"
    /\ requests[r].promise # 0
    /\ StoredBy(promises[requests[r].promise].why)
    /\ PositiveLifetimes(promises[requests[r].promise].why.tokenSet)
    /\ Truthy(requests[r].pre.refreshToken)
    /\ getRefreshToken(storage, namespace(requests[r].link), now) # requests[r].pre.refreshToken

\* C6: when the refresh call is answered by an error, by a result without
\* refreshAuthToken or by a refreshAuthToken that fails validation, then right
\* afterwards hasAccessToken() and hasRefreshToken() are both false.
C6_Step ==
  \A p \in DOMAIN promises' :
    (SettledNow(p) /\ promises'[p].kind = "refresh" /\ FailedBy(promises'[p].why)) =>
      /\ ~hasAccessToken(storage', namespace(promises'[p].link), now')
      /\ ~hasRefreshToken(storage', namespace(promises'[p].link), now')

C6_LogoutOnRefreshFailure == [][C6_Step]_vars

C6_Witness ==
  /\ \E p \in DOMAIN promises : promises[p].why.by = "error"
  /\ \E p \in DOMAIN promises : promises[p].why.by = "next" /\ ~promises[p].why.ok

\* C7: a request issued after a refresh failed, with no credentials stored
\* since, forwards no refresh call; the only call it causes is its own.
C7_NoRefreshAfterFailure ==
  \A r \in DOMAIN requests :
    requests[r].pre.failed =>
      /\ RefreshCallsOf(r) = {}
      /\ Cardinality(RequestCallsOf(r)) = IF requests[r].state = "forwarded" THEN 1 ELSE 0

C7_Witness ==
  \E r \in DOMAIN requests : requests[r].pre.failed /\ requests[r].state = "forwarded"

\* C8: a failing refresh call resolves the header promise with the empty
\* header set, never rejects it; every request waiting on it is queued for
\* forwarding or forwarded, never errored, and is forwarded without an
\* Authorization header.
C8_FailureDegradesToEmptyHeaders ==
  \A p \in DOMAIN promises :
    (promises[p].kind = "refresh" /\ FailedBy(promises[p].why)) =>
      /\ promises[p].state = "resolved"
      /\ promises[p].value = EmptyHeaders
      /\ \A r \in DOMAIN requests :
           requests[r].promise = p =>
             /\ requests[r].state \in {"queued", "forwarded"}
             /\ Cardinality(RequestCallsOf(r)) = IF requests[r].state = "forwarded" THEN 1 ELSE 0
             /\ \A k \in RequestCallsOf(r) :
                  "Authorization" \notin DOMAIN calls[k].operation.context["headers"]

C8_Witness ==
  \E r \in DOMAIN requests :
    /\ requests[r].state = "forwarded"
    /\ requests[r].promise # 0
    /\ FailedBy(promises[requests[r].promise].why)

\* C9: on a link constructed with a static access token every call the
\* forward handler receives is a request carrying Authorization: Bearer
\* <static token>; no refresh call is forwarded and no handle is created,
\* whatever the store holds.
C9_StaticOverride ==
  \A l \in links :
    StaticOverride(l) =>
      /\ loadHeadersPromise[l] = 0
      /\ \A k \in DOMAIN calls :
           calls[k].link = l =>
             /\ calls[k].kind = "request"
             /\ calls[k].operation.context["headers"] = BearerOf(options[l].accessToken)
      /\ \A r \in DOMAIN requests :
           requests[r].link = l =>
             /\ requests[r].state \in {"queued", "forwarded"}
             /\ Cardinality(RequestCallsOf(r)) = IF requests[r].state = "forwarded" THEN 1 ELSE 0

C9_Witness ==
  \E r1, r2 \in DOMAIN requests :
    /\ StaticOverride(requests[r1].link)
    /\ requests[r1].link = requests[r2].link
    /\ requests[r1].state = "forwarded"
    /\ requests[r2].state = "forwarded"
    /\ Truthy(requests[r1].pre.accessToken)
    /\ ~Truthy(requests[r2].pre.accessToken)
    /\ Truthy(requests[r2].pre.refreshToken)

\* C10: a request issued while a valid access token is stored and no handle
\* is pending (on a link without static token) resolves its headers without
\* a handle, forwards no refresh call and is forwarded with Authorization:
\* Bearer <the access token stored when it was issued>.
C10_StoredAccessToken ==
  \A r \in DOMAIN requests :
    (/\ ~StaticOverride(requests[r].link)
     /\ requests[r].pre.handle = 0
     /\ Truthy(requests[r].pre.accessToken)) =>
      /\ requests[r].promise = 0
      /\ RefreshCallsOf(r) = {}
      /\ requests[r].state \in {"queued", "forwarded"}
      /\ requests[r].authHeaders = BearerOf(requests[r].pre.accessToken)
      /\ Cardinality(RequestCallsOf(r)) = IF requests[r].state = "forwarded" THEN 1 ELSE 0
      /\ \A k \in RequestCallsOf(r) :
           calls[k].operation.context["headers"] = BearerOf(requests[r].pre.accessToken)

C10_Witness ==
  \E r \in DOMAIN requests :
    /\ ~StaticOverride(requests[r].link)
    /\ requests[r].pre.handle = 0
    /\ Truthy(requests[r].pre.accessToken)
    /\ requests[r].state = "forwarded"

\* request r was issued on a link without static token, with no handle and
\* with neither a valid access token nor a valid refresh token stored
NoCredentials(r) ==
  /\ ~StaticOverride(requests[r].link)
  /\ requests[r].pre.handle = 0
  /\ ~Truthy(requests[r].pre.accessToken)
  /\ ~Truthy(requests[r].pre.refreshToken)

TimerPromise(p) == p # 0 /\ promises[p].kind = "timer"

C11_Inv ==
  \A r \in DOMAIN requests :
    /\ NoCredentials(r) =>
         /\ RefreshCallsOf(r) = {}
         /\ TimerPromise(requests[r].promise)
    /\ TimerPromise(requests[r].pre.handle) => requests[r].promise = requests[r].pre.handle
    /\ TimerPromise(requests[r].promise) =>
         /\ requests[r].state \in {"awaiting", "queued", "forwarded"}
         /\ requests[r].state = "awaiting" <=> promises[requests[r].promise].state = "pending"
         /\ requests[r].state # "awaiting" => requests[r].authHeaders = EmptyHeaders
         /\ Cardinality(RequestCallsOf(r)) = IF requests[r].state = "forwarded" THEN 1 ELSE 0
         /\ \A k \in RequestCallsOf(r) :
              "Authorization" \notin DOMAIN calls[k].operation.context["headers"]

C11_Step ==
  \A p \in DOMAIN promises' :
    promises'[p].kind = "timer" =>
      /\ p \notin DOMAIN promises =>
           /\ promises'[p].state = "pending"
           /\ loadHeadersPromise'[promises'[p].link] = p
      /\ SettledNow(p) =>
           /\ p \in DOMAIN promises
           /\ \E tm \in timers : tm.promise = p /\ tm.due
           /\ loadHeadersPromise'[promises'[p].link] # p

C12_ExpiryBoundary ==
  \A l \in links :
    LET ns == namespace(l)
    IN /\ getAccessTokenExpires(storage, ns) = Num(now) =>
            /\ getAccessToken(storage, ns, now) = Null
            /\ ~hasAccessToken(storage, ns, now)
       /\ getRefreshTokenExpires(storage, ns) = Num(now) =>
            /\ getRefreshToken(storage, ns, now) = Null
            /\ ~hasRefreshToken(storage, ns, now)
       /\ getAccessTokenExpires(storage, ns) = Num(now + 1) =>
            getAccessToken(storage, ns, now) = getItem(storage, ns \o ACCESS_TOKEN_KEY)
       /\ getRefreshTokenExpires(storage, ns) = Num(now + 1) =>
            getRefreshToken(storage, ns, now) = getItem(storage, ns \o REFRESH_TOKEN_KEY)

\* request r is answered in this step; what its observer received
Responded(r) == Len(requests'[r].observed) > Len(requests[r].observed)

LastObserved(r) == requests'[r].observed[Len(requests'[r].observed)]

\* the top-level fields of the mutation the operation runs: of the mutation
\* definitions that are anonymous or named operationName
MutationFields(op) ==
  UNION {{op.query[i].selections[j] :
            j \in {j \in DOMAIN op.query[i].selections : op.query[i].selections[j].kind = "Field"}} :
           i \in {i \in DOMAIN op.query :
                    /\ op.query[i].kind = "OperationDefinition"
                    /\ op.query[i].operation = "mutation"
                    /\ op.query[i].name \in {Undefined, op.operationName}}}

HasLogoutField(op) == \E f \in MutationFields(op) : f.name.s = <<"logoutUser">>

\* the response keys of the fields that carry the authenticate directive
AuthKeys(op) ==
  {IF f.alias = Undefined THEN f.name.s ELSE f.alias.s :
     f \in {f \in MutationFields(op) :
              /\ f.name.s # <<"logoutUser">>
              /\ \E d \in DOMAIN f.directives : f.directives[d] = "authenticate"}}

IsTokenSet(x) ==
  /\ x.t = "object"
  /\ x.o.accessToken.t = "string"
  /\ x.o.accessTokenLifetime.t = "number"
  /\ x.o.refreshToken.t = "string"
  /\ x.o.refreshTokenLifetime.t = "number"

HoldsTokenSet(value, key) ==
  /\ value.data.t = "object"
  /\ key \in DOMAIN value.data.o
  /\ IsTokenSet(value.data.o[key])

C13_Step ==
  \A r \in DOMAIN requests :
    Responded(r) =>
      LET ob == LastObserved(r)
          ns == namespace(requests[r].link)
      IN \A key \in AuthKeys(requests[r].operation) :
           (HoldsTokenSet(ob.value, key) /\ PositiveLifetimes(ob.value.data.o[key].o)) =>
             LET ts == ob.value.data.o[key].o
             IN /\ getItem(storage', ns \o ACCESS_TOKEN_KEY) = ts.accessToken
                /\ getItem(storage', ns \o REFRESH_TOKEN_KEY) = ts.refreshToken
                /\ getAccessTokenExpires(storage', ns) = Num(now + ts.accessTokenLifetime.n * 1000)
                /\ getRefreshTokenExpires(storage', ns) = Num(now + ts.refreshTokenLifetime.n * 1000)
                /\ ob.accessToken = ts.accessToken
                /\ ob.refreshToken = ts.refreshToken

\* C13: when the result of a mutation holds, under the alias or else the
\* name of a top-level field carrying authenticate, a well-formed token set
\* (positive lifetimes), the four stored fields are that token set's when the
\* result reaches the caller, other fields being selected or not.
C13_LoginStored == [][C13_Step]_vars

C13_Witness ==
  \E r \in DOMAIN requests :
    /\ requests[r].operation = LoginAlias
    /\ requests[r].observed # <<>>
    /\ requests[r].observed[1].accessToken = LoginSet.o.accessToken
    /\ requests[r].pre.accessToken # LoginSet.o.accessToken

C14_Step ==
  \A r \in DOMAIN requests :
    (/\ Responded(r)
     /\ AuthKeys(requests[r].operation) # {}
     /\ ~HasLogoutField(requests[r].operation)
     /\ \A key \in AuthKeys(requests[r].operation) : ~HoldsTokenSet(LastObserved(r).value, key)) =>
      \A sfx \in Suffixes :
        storage'[namespace(requests[r].link) \o sfx] = storage[namespace(requests[r].link) \o sfx]

\* C14: a result whose value for the authenticate field is null, an empty
\* object or an object with a member missing or of the wrong type changes
\* none of the four stored fields.
C14_InvalidShapeIgnored == [][C14_Step]_vars

C14_Witness ==
  \E r \in DOMAIN requests :
    /\ requests[r].operation = LoginUnnamed
    /\ requests[r].observed # <<>>
    /\ requests[r].observed[1].value.data = Data(<<"loginMutation">>, WrongTypeSet)
    /\ Truthy(requests[r].observed[1].refreshToken)

C15_Step ==
  \A r \in DOMAIN requests :
    (Responded(r) /\ HasLogoutField(requests[r].operation)) =>
      /\ LastObserved(r).accessToken = Null
      /\ LastObserved(r).accessTokenExpires = Null
      /\ LastObserved(r).refreshToken = Null
      /\ LastObserved(r).refreshTokenExpires = Null
      /\ \A sfx \in Suffixes : storage'[namespace(requests[r].link) \o sfx] = Null

C16_Step ==
  \A r \in DOMAIN requests :
    (/\ Responded(r)
     /\ AuthKeys(requests[r].operation) = {}
     /\ ~HasLogoutField(requests[r].operation)) =>
      storage' = storage

\* C16: the result of a request that is not a mutation with a top-level
\* field logoutUser or a top-level field carrying authenticate leaves the
\* store unchanged.
C16_OnlyMarkedMutations == [][C16_Step]_vars

C16_Witness ==
  \E r \in DOMAIN requests :
    /\ requests[r].operation = AuthQuery
    /\ requests[r].observed # <<>>
    /\ HoldsTokenSet(requests[r].observed[1].value, <<"loginMutation">>)
    /\ requests[r].observed[1].accessToken # LoginSet.o.accessToken

C17_Step ==
  \A r \in DOMAIN requests :
    Responded(r) =>
      LET ns == namespace(requests[r].link)
      IN /\ LastObserved(r).accessToken = getAccessToken(storage', ns, now')
         /\ LastObserved(r).accessTokenExpires = getAccessTokenExpires(storage', ns)
         /\ LastObserved(r).refreshToken = getRefreshToken(storage', ns, now')
         /\ LastObserved(r).refreshTokenExpires = getRefreshTokenExpires(storage', ns)

\* C17: what the caller finds in the store when a result reaches it is the
\* store after the listeners of that result have run.
C17_ListenersBeforeRelay == [][C17_Step]_vars

C17_Witness ==
  \E r \in DOMAIN requests :
    /\ requests[r].operation = LoginUnnamed
    /\ requests[r].observed # <<>>
    /\ ~Truthy(requests[r].pre.accessToken)
    /\ requests[r].observed[1].accessToken = LoginSet.o.accessToken

\* C18: a request issued while the access token of an observed login is
\* stored and unexpired is forwarded with Authorization: Bearer <that token>.
C18_BearerAfterLogin ==
  \A r \in DOMAIN requests :
    (/\ ~StaticOverride(requests[r].link)
     /\ requests[r].pre.accessToken = LoginSet.o.accessToken) =>
      /\ requests[r].state \in {"queued", "forwarded"} =>
           requests[r].authHeaders = BearerOf(LoginSet.o.accessToken)
      /\ \A k \in RequestCallsOf(r) :
           calls[k].operation.context["headers"] = BearerOf(LoginSet.o.accessToken)

\* the forwarded field f is the original field o without authenticate
SameButAuthenticate(f, o) ==
  /\ f.kind = o.kind
  /\ f.name = o.name
  /\ f.alias = o.alias
  /\ f.directives = SelectSeq(o.directives, IsNotAuthenticate)
  /\ \A d \in DOMAIN f.directives : f.directives[d] # "authenticate"

C20_Step ==
  unforwarded' # unforwarded =>
    /\ thrown' = thrown + 1
    /\ UNCHANGED <<storage, loadHeadersPromise, promises, requests, calls, refreshes, mq, timers>>

\* C20: every request call without a forward handler throws, returns no
\* stream and changes neither the store nor the handle.
C20_ThrowsWithoutForward == [](thrown = unforwarded) /\ [][C20_Step]_vars

C20_Witness ==
  /\ thrown > 0
  /\ \E l \in links :
       /\ loadHeadersPromise[l] # 0
       /\ getItem(storage, namespace(l) \o REFRESH_TOKEN_KEY) # Null

C21_Inv ==
  \A r \in DOMAIN requests :
    /\ Cardinality(RequestCallsOf(r)) = requests[r].subscriptions
    /\ requests[r].subscriptions = IF requests[r].state = "forwarded" THEN 1 ELSE 0
    /\ Cardinality(RefreshCallsOf(r)) <= 1
    /\ \A k \in RequestCallsOf(r) :
         /\ calls[k].link = requests[r].link
         /\ calls[k].operation.operationName = requests[r].operation.operationName
         /\ calls[k].operation.variables = requests[r].operation.variables
         /\ calls[k].operation.query = removeDirectivesFromDocument(requests[r].operation.query)
    /\ Len(requests[r].observed) = Len(requests[r].emitted)
    /\ \A i \in DOMAIN requests[r].emitted : requests[r].observed[i].value = requests[r].emitted[i]
    /\ requests[r].signal = IF requests[r].done = "none" THEN <<>> ELSE <<requests[r].done>>

C21_Step ==
  \A r \in DOMAIN requests :
    /\ Len(requests'[r].observed) >= Len(requests[r].observed)
    /\ SubSeq(requests'[r].observed, 1, Len(requests[r].observed)) = requests[r].observed
    /\ requests[r].signal # <<>> =>
         /\ requests'[r].observed = requests[r].observed
         /\ requests'[r].signal = requests[r].signal

StoreFailedFor(r) ==
  \/ requests[r].storeFailed
  \/ requests[r].promise # 0 /\ promises[requests[r].promise].storeFailed

\* C22: a request during whose header resolution the store threw is never
\* forwarded, and once the reactions queued for it have run its stream has
\* signalled an error.
C22_StoreFailureErrors ==
  \A r \in DOMAIN requests :
    StoreFailedFor(r) =>
      /\ RequestCallsOf(r) = {}
      /\ mq = <<>> => requests[r].state = "errored" /\ requests[r].signal = <<"error">>

\* C23: setAuthTokenSet(s) with positive lifetimes, called at any time on any
\* store, leaves a store from which the reads made at the same time return
\* s.accessToken and s.refreshToken, both has...Token() true, and the expiries
\* now + lifetime * 1000.
C23_RoundTrip ==
  \A l \in links, s \in AccessorTokenSets :
    PositiveLifetimes(s.o) =>
      LET ns == namespace(l)
          st == setAuthTokenSet(storage, ns, s.o, now)
      IN /\ getAccessToken(st, ns, now) = s.o.accessToken
         /\ getRefreshToken(st, ns, now) = s.o.refreshToken
         /\ hasAccessToken(st, ns, now)
         /\ hasRefreshToken(st, ns, now)
         /\ getAccessTokenExpires(st, ns) = Num(now + s.o.accessTokenLifetime.n * 1000)
         /\ getRefreshTokenExpires(st, ns) = Num(now + s.o.refreshTokenLifetime.n * 1000)

C23_Witness ==
  \E l \in links :
    /\ getAccessToken(storage, namespace(l), now) = TestSet.o.accessToken
    /\ getAccessTokenExpires(storage, namespace(l)) = Num(now + 20000)
    /\ getRefreshTokenExpires(storage, namespace(l)) = Num(now + 100000)

\* C24: from any store, logout() leaves the four keys absent and both
\* has...Token() false, and a second logout() leaves that store as it is.
C24_IdempotentClear ==
  \A l \in links :
    LET ns == namespace(l)
        st == logout(storage, ns)
    IN /\ \A sfx \in Suffixes : getItem(st, ns \o sfx) = Null
       /\ ~hasAccessToken(st, ns, now)
       /\ ~hasRefreshToken(st, ns, now)
       /\ logout(st, ns) = st

C24_Witness ==
  \E l \in links :
    /\ envEvents = 2
    /\ \A sfx \in Suffixes : getItem(storage, namespace(l) \o sfx) = Null

\* C25: setAccessTokenExpires(null) removes the expiry entry of the access
\* token: getAccessTokenExpires() is null and hasAccessToken() false while the
\* token value, the refresh token and its expiry stay as they were; and a
\* token whose expiry entry is absent is not valid.
C25_NullExpiryInvalidates ==
  \A l \in links :
    LET ns == namespace(l)
        st == setAccessTokenExpires(storage, ns, Null)
    IN /\ getItem(st, ns \o ACCESS_TOKEN_EXPIRES_KEY) = Null
       /\ getAccessTokenExpires(st, ns) = Null
       /\ ~hasAccessToken(st, ns, now)
       /\ getItem(st, ns \o ACCESS_TOKEN_KEY) = getItem(storage, ns \o ACCESS_TOKEN_KEY)
       /\ getItem(st, ns \o REFRESH_TOKEN_KEY) = getItem(storage, ns \o REFRESH_TOKEN_KEY)
       /\ getItem(st, ns \o REFRESH_TOKEN_EXPIRES_KEY) = getItem(storage, ns \o REFRESH_TOKEN_EXPIRES_KEY)
       /\ getRefreshToken(st, ns, now) = getRefreshToken(storage, ns, now)
       /\ getItem(storage, ns \o ACCESS_TOKEN_EXPIRES_KEY) = Null => ~hasAccessToken(storage, ns, now)
       /\ ~hasRefreshToken(removeItem(storage, ns \o REFRESH_TOKEN_EXPIRES_KEY), ns, now)

C25_Witness ==
  \E l \in links :
    /\ getItem(storage, namespace(l) \o ACCESS_TOKEN_KEY) = TestSet.o.accessToken
    /\ getItem(storage, namespace(l) \o ACCESS_TOKEN_EXPIRES_KEY) = Null
    /\ ~hasAccessToken(storage, namespace(l), now)
    /\ hasRefreshToken(storage, namespace(l), now)

\* what settled promise p was a well-formed token set whose access token
\* lifetime is not positive
StaleBy(why) == StoredBy(why) /\ why.tokenSet.accessTokenLifetime.n <= 0

C26_Inv ==
  \A r \in DOMAIN requests :
    (requests[r].promise # 0 /\ StaleBy(promises[requests[r].promise].why)) =>
      /\ promises[requests[r].promise].value = EmptyHeaders
      /\ \A k \in RequestCallsOf(r) : "Authorization" \notin DOMAIN calls[k].operation.context["headers"]

C26_Step ==
  \A p \in DOMAIN promises' :
    (SettledNow(p) /\ StaleBy(promises'[p].why)) =>
      LET ts == promises'[p].why.tokenSet
          ns == namespace(promises'[p].link)
      IN /\ getItem(storage', ns \o ACCESS_TOKEN_KEY) = ts.accessToken
         /\ getItem(storage', ns \o REFRESH_TOKEN_KEY) = ts.refreshToken
         /\ getRefreshTokenExpires(storage', ns) = Num(now' + ts.refreshTokenLifetime.n * 1000)
         /\ ~hasAccessToken(storage', ns, now')

\* C26: when the refresh call is answered by a well-formed token set whose
\* accessTokenLifetime is not positive, the set is stored, hasAccessToken() is
\* false right then, the header promise resolves to the empty header set and
\* the waiting requests are forwarded without an Authorization header.
C26_ExpiredRefreshNoHeader == []C26_Inv /\ [][C26_Step]_vars

CallsOf(r) == {k \in DOMAIN calls : calls[k].request = r}

\* C27: a request issued with no handle while the store holds neither a
\* valid access token nor a valid refresh token has, once forwarded, caused
\* exactly two calls of the forward handler: the refresh mutation with
\* variables {token: null}, then the request itself.
C27_RefreshWithoutToken ==
  \A r \in DOMAIN requests :
    (NoCredentials(r) /\ requests[r].state = "forwarded") =>
      /\ Cardinality(CallsOf(r)) = 2
      /\ \E k \in RefreshCallsOf(r) :
           /\ calls[k].operation.query = REFRESH_TOKEN_MUTATION
           /\ calls[k].operation.variables = [token |-> Null]
           /\ \A k2 \in RequestCallsOf(r) : k < k2

\* the refresh stream i, answered before, emits a result, signals an error
\* or completes in this step
LateEvent(i) == refreshes[i].emitted >= 1 /\ refreshes'[i] # refreshes[i]

C28_Step ==
  \A i \in DOMAIN refreshes :
    LateEvent(i) => storage' = storage /\ loadHeadersPromise' = loadHeadersPromise

\* C28: what a refresh stream does after its first result, a further result
\* or an error, changes neither the store nor the handle of any link.
C28_FirstEventOnly == [][C28_Step]_vars

\* C29: every subscribed request is eventually forwarded, however the refresh
\* stream its headers wait for terminates.
C29_EveryRequestForwarded ==
  []<>(\A r \in DOMAIN requests : requests[r].state = "forwarded")

\* C30: while the link holds a handle, a request joins it: it receives that
\* promise and its outcome as headers and makes no refresh call and no promise
\* of its own, also when the store holds a valid access token by then; a
\* request that finds no handle and a valid stored token reads the store.
C30_JoinBeforeStore ==
  \A r \in DOMAIN requests :
    LET q == requests[r]
    IN /\ q.pre.handle # 0 =>
            /\ q.promise = q.pre.handle
            /\ RefreshCallsOf(r) = {}
            /\ \A p \in DOMAIN promises :
                 p > q.pre.handle =>
                   \E r2 \in DOMAIN requests : r2 # r /\ requests[r2].promise = p
            /\ q.state \in {"awaiting", "queued", "forwarded", "errored"}
            /\ q.state = "awaiting" => promises[q.promise].state = "pending"
            /\ q.state \in {"queued", "forwarded"} =>
                 /\ promises[q.promise].state = "resolved"
                 /\ q.authHeaders = promises[q.promise].value
            /\ Cardinality(RequestCallsOf(r)) = IF q.state = "forwarded" THEN 1 ELSE 0
            /\ \A k \in RequestCallsOf(r) :
                 calls[k].operation.context["headers"] = promises[q.promise].value
       /\ (q.pre.handle = 0 /\ ~StaticOverride(q.link) /\ Truthy(q.pre.accessToken)) =>
            /\ q.promise = 0
            /\ q.authHeaders = BearerOf(q.pre.accessToken)

\* a request made while a handle was held and the store had a valid access
\* token was forwarded with the handle's outcome, which is not that token
C30_Witness ==
  \E r \in DOMAIN requests :
    /\ requests[r].pre.handle # 0
    /\ Truthy(requests[r].pre.accessToken)
    /\ requests[r].state = "forwarded"
    /\ \E k \in RequestCallsOf(r) :
         calls[k].operation.context["headers"] # BearerOf(requests[r].pre.accessToken)

C31_Step ==
  \A p \in DOMAIN promises' :
    (SettledNow(p) /\ FailedBy(promises'[p].why)) =>
      /\ \A sfx \in Suffixes : getItem(storage', namespace(promises'[p].link) \o sfx) = Null
      /\ promises'[p].value = EmptyHeaders

\* C31: the step in which a refresh call fails, by an error of its stream or
\* by a result without a well-formed token set, leaves none of the four
\* credential fields of the link in the store, whatever was stored since the
\* call was made, and resolves the headers to the empty set.
C31_FailureClearsAll == [][C31_Step]_vars

\* a request joined the handle of a refresh call while a valid access token
\* was in the store, stored after that call had been made; the call has failed
\* since and the store holds no credentials
C31_Witness ==
  \E r \in DOMAIN requests :
    /\ requests[r].pre.handle # 0
    /\ requests[r].promise = requests[r].pre.handle
    /\ Truthy(requests[r].pre.accessToken)
    /\ promises[requests[r].promise].kind = "refresh"
    /\ FailedBy(promises[requests[r].promise].why)
    /\ \A sfx \in Suffixes : getItem(storage, namespace(requests[r].link) \o sfx) = Null

\* request r receives its auth headers in this step: it is subscribed and
\* finds them at once, or the promise it waits for resolves
ReceivesHeaders(r) ==
  /\ requests'[r].state = "queued"
  /\ r \in DOMAIN requests => requests[r].state = "awaiting"

C32_Step ==
  \A r \in DOMAIN requests' :
    (/\ ~StaticOverride(requests'[r].link)
     /\ ReceivesHeaders(r)
     /\ "Authorization" \in DOMAIN requests'[r].authHeaders) =>
      LET stored == getAccessToken(storage', namespace(requests'[r].link), now')
      IN /\ Truthy(stored)
         /\ requests'[r].authHeaders = BearerOf(stored)

C32_Inv ==
  \A r \in DOMAIN requests :
    ~StaticOverride(requests[r].link) =>
      \A k \in RequestCallsOf(r) :
        calls[k].operation.context["headers"] = requests[r].authHeaders

\* C32: on a link without static token, the Authorization header a request
\* is forwarded with is the one it received when it was subscribed or when the
\* promise it waited for resolved, and its token is stored and unexpired at
\* that moment: never a token removed or expired before the request was made.
C32_NoRevokedToken == []C32_Inv /\ [][C32_Step]_vars

\* C33: the handle belongs to the link instance.  A request waits only on a
\* promise of its own link, whatever the other instance over the same store
\* and namespace has pending; a request that finds no handle on its own link,
\* no valid access token and a valid refresh token makes its own refresh call
\* with that refresh token.
C33_PrivateHandle ==
  /\ \A l \in links :
       loadHeadersPromise[l] # 0 => promises[loadHeadersPromise[l]].link = l
  /\ \A r \in DOMAIN requests :
       LET q == requests[r]
       IN /\ q.promise # 0 => promises[q.promise].link = q.link
          /\ (NeededRefresh(r) /\ q.pre.handle = 0) =>
               /\ Cardinality(RefreshCallsOf(r)) = 1
               /\ \A k \in RefreshCallsOf(r) :
                    /\ calls[k].link = q.link
                    /\ calls[k].operation.variables = [token |-> q.pre.refreshToken]

\* both instances have a refresh call with the same refresh token in flight
C33_Witness ==
  \E i, j \in DOMAIN refreshes :
    /\ refreshes[i].link # refreshes[j].link
    /\ InFlight(i) /\ InFlight(j)
    /\ \E k1, k2 \in DOMAIN calls :
         /\ calls[k1].kind = "refresh" /\ calls[k1].link = refreshes[i].link
         /\ calls[k2].kind = "refresh" /\ calls[k2].link = refreshes[j].link
         /\ calls[k1].operation.variables = calls[k2].operation.variables
         /\ Truthy(calls[k1].operation.variables.token)

\* the keys of the store whose entry this step changes
Touched == {k \in Keys : storage'[k] # storage[k]}

\* the four keys of link l
KeysOf(l) == {namespace(l) \o sfx : sfx \in Suffixes}

C34_Step ==
  /\ \E l \in links : Touched \subseteq KeysOf(l)
  /\ \A r \in DOMAIN requests' :
       (r \notin DOMAIN requests \/ requests'[r].emitted # requests[r].emitted) =>
         Touched \subseteq KeysOf(requests'[r].link)
  /\ \A i \in DOMAIN refreshes' :
       (i \notin DOMAIN refreshes \/ refreshes'[i] # refreshes[i]) =>
         Touched \subseteq KeysOf(refreshes'[i].link)

C34_Inv ==
  \A k \in DOMAIN calls :
    namespace(calls[k].link) # OTHER_NAMESPACE =>
      /\ calls[k].kind = "refresh" => calls[k].operation.variables.token # TestSet.o.refreshToken
      /\ calls[k].kind = "request" =>
           calls[k].operation.context["headers"] # BearerOf(TestSet.o.accessToken)

\* C34: every step changes entries of the store under the namespace of one
\* link only, the link whose request, refresh call, listener or accessor runs
\* in it (so no step empties the store), and a link never sends a token
\* stored under the other link's namespace.
C34_NamespaceIsolation == []C34_Inv /\ [][C34_Step]_vars

\* a logout response of the first link removed its credentials and those under
\* the other namespace are still there
C34_Witness ==
  \E r \in DOMAIN requests :
    /\ namespace(requests[r].link) = DEFAULT_NAMESPACE
    /\ requests[r].operation = LogoutMutation
    /\ Truthy(requests[r].pre.refreshToken)
    /\ requests[r].observed # <<>>
    /\ \A sfx \in Suffixes : getItem(storage, DEFAULT_NAMESPACE \o sfx) = Null
    /\ getItem(storage, OTHER_NAMESPACE \o ACCESS_TOKEN_KEY) = TestSet.o.accessToken
    /\ getItem(storage, OTHER_NAMESPACE \o REFRESH_TOKEN_KEY) = TestSet.o.refreshToken

\* the listener the top-level field of a mutation registers
ListenerType(field) == IF field.name.s = <<"logoutUser">> THEN "logout" ELSE "authenticate"

C35_Inv ==
  \A r \in DOMAIN requests :
    (requests[r].state = "forwarded" /\ requests[r].operation \in {LoginThenLogout, LogoutThenLogin}) =>
      LET fields == requests[r].operation.query[1].selections
      IN /\ Len(requests[r].listeners) = Len(fields)
         /\ \A i \in DOMAIN fields : requests[r].listeners[i].type = ListenerType(fields[i])

C35_Step ==
  \A r \in DOMAIN requests :
    Responded(r) =>
      LET ns == namespace(requests[r].link)
          value == LastObserved(r).value
          valid == HoldsTokenSet(value, <<"loginMutation">>)
      IN /\ requests[r].operation = LoginThenLogout =>
              \A sfx \in Suffixes : getItem(storage', ns \o sfx) = Null
         /\ (requests[r].operation = LogoutThenLogin /\ ~valid) =>
              \A sfx \in Suffixes : getItem(storage', ns \o sfx) = Null
         /\ (requests[r].operation = LogoutThenLogin /\ valid) =>
              LET ts == value.data.o[<<"loginMutation">>].o
              IN /\ getItem(storage', ns \o ACCESS_TOKEN_KEY) = ts.accessToken
                 /\ getItem(storage', ns \o REFRESH_TOKEN_KEY) = ts.refreshToken
                 /\ getAccessTokenExpires(storage', ns) = Num(now + ts.accessTokenLifetime.n * 1000)
                 /\ getRefreshTokenExpires(storage', ns) = Num(now + ts.refreshTokenLifetime.n * 1000)

\* C35: the listeners of a mutation are registered in the order of its
\* top-level fields and run in that order on every result its stream emits: a
\* mutation that selects a login field and then logoutUser leaves no
\* credentials in the store whatever the result, one that selects logoutUser
\* and then the login field leaves the token set of the result when it holds
\* one and none otherwise.
C35_ListenersInOrder == []C35_Inv /\ [][C35_Step]_vars

\* a valid token set returned for login-then-logout left the store empty, and
\* the second result of a logout-then-login request stored its token set after
\* the first had left the store empty
C35_Witness ==
  /\ \E r \in DOMAIN requests :
       /\ requests[r].operation = LoginThenLogout
       /\ Truthy(requests[r].pre.accessToken)
       /\ requests[r].observed # <<>>
       /\ HoldsTokenSet(requests[r].observed[1].value, <<"loginMutation">>)
       /\ requests[r].observed[1].accessToken = Null
       /\ requests[r].observed[1].refreshTokenExpires = Null
  /\ \E r \in DOMAIN requests :
       /\ requests[r].operation = LogoutThenLogin
       /\ Len(requests[r].observed) = 2
       /\ requests[r].observed[1].refreshTokenExpires = Null
       /\ requests[r].observed[2].accessToken = LoginSet.o.accessToken
       /\ getItem(storage, namespace(requests[r].link) \o ACCESS_TOKEN_KEY) = LoginSet.o.accessToken

\* the headers the application gave in the context ({} if it gave none)
GivenHeaders(r) ==
  IF requests[r].headers.t = "object" THEN requests[r].headers.o ELSE EmptyHeaders

\* C36: the headers of the context of a forwarded request are the headers
\* the application gave overlaid with the auth headers of the link: every
\* header of the application other than Authorization is kept, the
\* Authorization of the link replaces one of the application, and when the
\* link resolved no header the headers of the application pass unchanged (none
\* at all if the application gave none).
C36_HeaderMerge ==
  \A r \in DOMAIN requests : \A k \in RequestCallsOf(r) :
    LET given == GivenHeaders(r)
        auth == requests[r].authHeaders
        sent == calls[k].operation.context["headers"]
    IN /\ DOMAIN calls[k].operation.context = {"headers"}
       /\ DOMAIN auth \subseteq {"Authorization"}
       /\ DOMAIN sent = DOMAIN given \cup DOMAIN auth
       /\ \A h \in DOMAIN given \ {"Authorization"} : sent[h] = given[h]
       /\ \A h \in DOMAIN auth : sent[h] = auth[h]
       /\ DOMAIN auth = {} => \A h \in DOMAIN given : sent[h] = given[h]
       /\ (DOMAIN auth = {} /\ requests[r].headers = Undefined) => DOMAIN sent = {}

\* a request with an Authorization header of its own was forwarded with the
\* token of the link and its other header, one with no token to use was
\* forwarded with its own Authorization, and one without context headers and
\* without token was forwarded with no header
C36_Witness ==
  /\ \E r \in DOMAIN requests : \E k \in RequestCallsOf(r) :
       /\ requests[r].headers = Obj(OwnAuthorization)
       /\ Truthy(requests[r].pre.accessToken)
       /\ calls[k].operation.context["headers"]["Authorization"] = Str(<<"Bearer ">> \o requests[r].pre.accessToken.s)
       /\ calls[k].operation.context["headers"]["Accept"] = Str(<<"json">>)
  /\ \/ \E r \in DOMAIN requests : \E k \in RequestCallsOf(r) :
          /\ requests[r].headers = Obj(OwnAuthorization)
          /\ DOMAIN requests[r].authHeaders = {}
          /\ calls[k].operation.context["headers"]["Authorization"] = Str(<<"Basic own">>)
     \/ \E r \in DOMAIN requests : \E k \in RequestCallsOf(r) :
          /\ requests[r].headers = Undefined
          /\ DOMAIN requests[r].authHeaders = {}
          /\ DOMAIN calls[k].operation.context["headers"] = {}

\* C37: setRefreshTokenExpires never removes the expiry entry of the refresh
\* token: whatever the timestamp, null included, the entry holds
\* String(timestamp) afterwards; after setRefreshTokenExpires(null)
\* getRefreshToken() is null and hasRefreshToken() false, while the refresh
\* token value and the two entries of the access token are as they were.
C37_RefreshExpiryNeverRemoved ==
  \A l \in links :
    LET ns == namespace(l)
        st == setRefreshTokenExpires(storage, ns, Null)
    IN /\ \A timestamp \in Timestamps :
            getItem(setRefreshTokenExpires(storage, ns, timestamp), ns \o REFRESH_TOKEN_EXPIRES_KEY)
              = Str(JsString(timestamp))
       /\ getItem(st, ns \o REFRESH_TOKEN_EXPIRES_KEY) = Str(<<"n", "u", "l", "l">>)
       /\ getItem(setAccessTokenExpires(storage, ns, Null), ns \o ACCESS_TOKEN_EXPIRES_KEY) = Null
       /\ getRefreshToken(st, ns, now) = Null
       /\ ~hasRefreshToken(st, ns, now)
       /\ getItem(st, ns \o REFRESH_TOKEN_KEY) = getItem(storage, ns \o REFRESH_TOKEN_KEY)
       /\ getItem(st, ns \o ACCESS_TOKEN_KEY) = getItem(storage, ns \o ACCESS_TOKEN_KEY)
       /\ getItem(st, ns \o ACCESS_TOKEN_EXPIRES_KEY) = getItem(storage, ns \o ACCESS_TOKEN_EXPIRES_KEY)
       /\ getAccessToken(st, ns, now) = getAccessToken(storage, ns, now)

\* setRefreshTokenExpires(null) was called on a store with valid credentials:
\* the entry holds "null", the refresh token is stored and not returned, and
\* the access token is still valid
C37_Witness ==
  \E l \in links :
    /\ envEvents > 0
    /\ getItem(storage, namespace(l) \o REFRESH_TOKEN_EXPIRES_KEY) = Str(<<"n", "u", "l", "l">>)
    /\ getItem(storage, namespace(l) \o REFRESH_TOKEN_KEY) = TestSet.o.refreshToken
    /\ getRefreshToken(storage, namespace(l), now) = Null
    /\ ~hasRefreshToken(storage, namespace(l), now)
    /\ getAccessToken(storage, namespace(l), now) = TestSet.o.accessToken

\* the stream of request r ends in this step, having emitted no result
EndsWithoutResult(r) ==
  /\ requests[r].state = "forwarded"
  /\ requests[r].done = "none"
  /\ requests'[r].done # "none"
  /\ requests[r].emitted = <<>>

C38_Step ==
  \A r \in DOMAIN requests :
    (EndsWithoutResult(r) /\ requests[r].listeners # <<>>) =>
      /\ storage' = storage
      /\ requests'[r].signal = Append(requests[r].signal, requests'[r].done)
      /\ requests[r].signal = <<>>
      /\ requests'[r].observed = <<>>
      /\ \A q \in DOMAIN requests : q # r => requests'[q] = requests[q]

\* C38: an error or a completion of the forwarded stream that comes before
\* any result runs no listener: for a logoutUser mutation and for a mutation
\* with an authenticate field the store is left as it is, and the observer of
\* the request receives that one signal and nothing else.
C38_SignalRunsNoListener == [][C38_Step]_vars

\* the stream of a logoutUser mutation ended with an error and that of a
\* login mutation completed, neither having emitted a result, and the
\* credentials are still stored and valid
C38_Witness ==
  /\ \E r \in DOMAIN requests :
       /\ requests[r].operation = LogoutMutation
       /\ requests[r].listeners # <<>>
       /\ requests[r].emitted = <<>>
       /\ requests[r].done = "error"
       /\ requests[r].signal = <<"error">>
  /\ \E r \in DOMAIN requests :
       /\ requests[r].operation = LoginUnnamed
       /\ requests[r].listeners # <<>>
       /\ requests[r].emitted = <<>>
       /\ requests[r].done = "complete"
       /\ requests[r].signal = <<"complete">>
  /\ hasAccessToken(storage, DEFAULT_NAMESPACE, now)
  /\ hasRefreshToken(storage, DEFAULT_NAMESPACE, now)

\* the header resolution that is the handle of link l is one during which
\* the store threw
FailedHandle(l) ==
  loadHeadersPromise[l] # 0 /\ promises[loadHeadersPromise[l]].storeFailed

C39_Inv == failing = {} => \A l \in links : ~FailedHandle(l)

\* a request made while the store works waits on no resolution during which
\* the store threw
C39_Step ==
  \A r \in DOMAIN requests' \ DOMAIN requests :
    failing = {} =>
      /\ ~requests'[r].storeFailed
      /\ requests'[r].promise # 0 => ~promises'[requests'[r].promise].storeFailed

\* C39: a failure of the store during a header resolution affects the
\* requests waiting on that resolution only: once the store works again the
\* failed resolution is not the handle of the link, and a request made then
\* resolves its headers without it.
C39_TransientFailure == []C39_Inv /\ [][C39_Step]_vars

====
